---- MODULE Spec2Model ----
(***************************************************************************)
(* A model of the prompt-optimization pipeline of the Claude Prompt        *)
(* Optimizer extension: the multi-provider client (utils/aiProviders.js),  *)
(* the background service worker and, further down, the popup.             *)
(*                                                                         *)
(* Texts are sequences of tokens.  A token is a whole boilerplate phrase,  *)
(* a colon, a whitespace character or an ordinary word, which is the       *)
(* granularity at which the regular expressions of cleanResponse act.      *)
(* Error messages are sequences of the pieces the code concatenates, each  *)
(* literal piece copied verbatim from the source.                          *)
(***************************************************************************)
EXTENDS Integers, Sequences, FiniteSets, TLC

\* Longest provider text (in tokens) the network hands back.
MaxTextLen == 3

\* Longest text of one part when a Gemini answer has two parts.
MaxPartLen == 1

-----------------------------------------------------------------------------
(* JavaScript values                                                       *)

\* The JavaScript value undefined (an absent property).
Undefined == "<undefined>"

\* !v for a string-or-undefined value v.
Falsy(v) == v \in {Undefined, ""}

\* a || b
OrElse(a, b) == IF Falsy(a) THEN b ELSE a

-----------------------------------------------------------------------------
(* Texts                                                                   *)

\* The phrases of the prefix patterns of cleanResponse, in the order of the
\* array.
Prefixes ==
  << "Here's the optimized prompt",
     "Optimized prompt",
     "Here is the optimized version",
     "The optimized prompt",
     "Here is your optimized prompt" >>

\* String.prototype.toLowerCase on the tokens that differ only in case.
ToLowerCase(tok) ==
  CASE tok = "Optimized prompt" -> "optimized prompt"
    [] tok = "OPTIMIZED PROMPT" -> "optimized prompt"
    [] tok = "Here's the optimized prompt" -> "here's the optimized prompt"
    [] tok = "Here is the optimized version" -> "here is the optimized version"
    [] tok = "The optimized prompt" -> "the optimized prompt"
    [] tok = "Here is your optimized prompt" -> "here is your optimized prompt"
    [] tok = "PY" -> "py"
    [] tok = "A" -> "a"
    [] OTHER -> tok

\* The characters \s matches and trim() removes.
Whitespace == {" ", "\n"}

\* The tokens a provider's text is made of.
TextTokens ==
  { Prefixes[i] : i \in DOMAIN Prefixes } \cup {"OPTIMIZED PROMPT", ":", " ", "fix my code"}

RECURSIVE SeqsUpTo(_, _)
SeqsUpTo(S, n) ==
  IF n = 0 THEN {<<>>}
  ELSE LET shorter == SeqsUpTo(S, n - 1)
       IN  shorter \cup { Append(s, x) : s \in { t \in shorter : Len(t) = n - 1 }, x \in S }

Texts == SeqsUpTo(TextTokens, MaxTextLen)

RECURSIVE TrimStart(_)
TrimStart(t) ==
  IF t # <<>> /\ Head(t) \in Whitespace THEN TrimStart(Tail(t)) ELSE t

RECURSIVE TrimEnd(_)
TrimEnd(t) ==
  IF t # <<>> /\ t[Len(t)] \in Whitespace THEN TrimEnd(SubSeq(t, 1, Len(t) - 1)) ELSE t

\* String.prototype.trim
Trim(t) == TrimEnd(TrimStart(t))

\* text.replace(/^<phrase>:?\s*/i, ''): the phrase at the very start, whatever
\* its case, then at most one colon, then all the whitespace that follows.
ReplacePrefix(t, phrase) ==
  IF t # <<>> /\ ToLowerCase(Head(t)) = ToLowerCase(phrase)
  THEN LET afterPhrase == Tail(t)
           afterColon  == IF afterPhrase # <<>> /\ Head(afterPhrase) = ":"
                          THEN Tail(afterPhrase) ELSE afterPhrase
       IN  TrimStart(afterColon)
  ELSE t

\* The for-of loop of cleanResponse from pattern i on: every pattern is applied
\* to what the patterns before it left.
RECURSIVE ApplyPatterns(_, _)
ApplyPatterns(t, i) ==
  IF i > Len(Prefixes) THEN t
  ELSE ApplyPatterns(ReplacePrefix(t, Prefixes[i]), i + 1)

\* The loop with a break after the first pattern that matches.
RECURSIVE ApplyFirstPattern(_, _)
ApplyFirstPattern(t, i) ==
  IF i > Len(Prefixes) THEN t
  ELSE IF ReplacePrefix(t, Prefixes[i]) # t THEN ReplacePrefix(t, Prefixes[i])
  ELSE ApplyFirstPattern(t, i + 1)

cleanResponseFirstMatchOnly(text) == Trim(ApplyFirstPattern(Trim(text), 1))

cleanResponse(text) == Trim(ApplyPatterns(Trim(text), 1))

\* Array.prototype.join('\n') of a list of texts.
RECURSIVE JoinLines(_)
JoinLines(ts) ==
  IF ts = <<>> THEN <<>>
  ELSE IF Len(ts) = 1 THEN ts[1]
  ELSE ts[1] \o <<"\n">> \o JoinLines(Tail(ts))

\* parts.filter(p => p.text): the parts whose text is neither absent nor ''.
RECURSIVE FilterText(_)
FilterText(ps) ==
  IF ps = <<>> THEN <<>>
  ELSE IF Head(ps) = <<>> THEN FilterText(Tail(ps))
  ELSE <<Head(ps)>> \o FilterText(Tail(ps))

-----------------------------------------------------------------------------
(* The network                                                             *)

\* Text bound of the answers relayed through the background worker.
MaxRelayedTextLen == 1

\* The message of the TypeError a failed fetch rejects with (Chrome's, and
\* another engine's).
FetchErrors == {"Failed to fetch", "NetworkError when attempting to fetch resource."}

\* The message of the SyntaxError response.json() rejects with.
JsonError == "Unexpected end of JSON input"

ErrorStatuses == {400, 401, 402, 403, 404, 429, 500, 503}

\* error.error.message of a provider's error body ('' when the body has none
\* or is no JSON).
RawMessages ==
  { "",
    "You exceeded your current quota, please check your plan and billing details.",
    "The model is overloaded. Please try again later." }

\* response.ok
ResponseOk(status) == status >= 200 /\ status <= 299

\* The body of a 2xx answer: whether it parses, promptFeedback.blockReason,
\* candidates[0].content.parts (Gemini), and the text field of the other two
\* providers (choices[0].message.content, response), <<>> when absent or ''.
NoData ==
  [jsonOk |-> TRUE, blockReason |-> "", hasParts |-> FALSE, parts |-> <<>>, text |-> <<>>]

\* The tokens of the parts of a two-part Gemini answer.
PartTokens == {"Optimized prompt", " ", "fix my code"}

PartLists(n) ==
  {<<>>} \cup { <<t>> : t \in SeqsUpTo(TextTokens, n) }
         \cup { <<t, u>> : t, u \in SeqsUpTo(PartTokens, MaxPartLen) }

SuccessData(provider, n) ==
  {[NoData EXCEPT !.jsonOk = FALSE]} \cup
  IF provider = "gemini"
  THEN {[NoData EXCEPT !.blockReason = "SAFETY"], NoData} \cup
       { [NoData EXCEPT !.hasParts = TRUE, !.parts = ps] : ps \in PartLists(n) }
  ELSE { [NoData EXCEPT !.text = t] : t \in SeqsUpTo(TextTokens, n) }

Rejections ==
  { [type |-> "reject", message |-> m, status |-> 0, raw |-> "", data |-> NoData] :
      m \in FetchErrors }

Responses(provider, n) ==
  { [type |-> "response", message |-> "", status |-> s, raw |-> r, data |-> NoData] :
      s \in ErrorStatuses, r \in RawMessages } \cup
  { [type |-> "response", message |-> "", status |-> 200, raw |-> "", data |-> d] :
      d \in SuccessData(provider, n) }

NoAnswer == [type |-> "none", message |-> "", status |-> 0, raw |-> "", data |-> NoData]

-----------------------------------------------------------------------------
(* Results and error messages                                              *)

Resolved(text) == [ok |-> TRUE, text |-> text, message |-> <<>>]
Thrown(message) == [ok |-> FALSE, text |-> <<>>, message |-> message]
NoResult == [ok |-> FALSE, text |-> <<>>, message |-> <<"<pending>">>]

\* piece.includes(needle) for the pieces and needles of this program.
PieceIncludes(piece, needle) ==
  \/ piece = needle
  \/ <<piece, needle>> \in
       { <<"OpenAI quota exceeded - add billing", "quota">>,
         <<"You exceeded your current quota, please check your plan and billing details.", "quota">> }

\* message.includes(needle)
Includes(message, needle) ==
  \E i \in DOMAIN message : PieceIncludes(message[i], needle)

\* The error kind of the taxonomy that a message of the client stands for;
\* "Unclassified" for a provider's raw text, a bare status and a raw exception.
KindOf(message) ==
  LET first == IF message = <<>> THEN "" ELSE message[1] IN
  CASE first \in {"Gemini API key is required", "OpenAI API key is required",
                  "API key not configured. Please set it in Options."} -> "MissingCredential"
    [] first = "Invalid request. Check your prompt." -> "BadRequest"
    [] first \in {"Invalid Gemini API key", "Invalid OpenAI API key",
                  "API key invalid or restricted. Check Options > API key"} -> "InvalidCredential"
    [] first \in {"Rate limit: 15 req/min for free tier. Wait and retry.",
                  "OpenAI rate limit exceeded",
                  "Rate limit exceeded. Please wait a moment and try again."} -> "RateLimited"
    [] first \in {"OpenAI quota exceeded - add billing",
                  "API quota exceeded. Check your Google AI Studio dashboard."} -> "QuotaExceeded"
    [] first = "Gemini API is temporarily unavailable" -> "ProviderUnavailable"
    [] first = "Model \"" -> "ModelNotFound"
    [] first = "Cannot connect to Ollama. Make sure it is running on " -> "NetworkError"
    [] first \in {"No response from Gemini API", "No response from OpenAI"} -> "EmptyResponse"
    [] first = "Content blocked: " -> "ContentBlocked"
    [] first = "Unknown provider: " -> "InvalidArgument"
    [] OTHER -> "Unclassified"

-----------------------------------------------------------------------------
(* utils/aiProviders.js                                                    *)

PROVIDERS ==
  [gemini |-> [model |-> "gemini-1.5-flash",
               endpoint |-> "https://generativelanguage.googleapis.com/v1beta/models/gemini-1.5-flash:generateContent"],
   openai |-> [model |-> "gpt-4o-mini",
               endpoint |-> "https://api.openai.com/v1/chat/completions"],
   ollama |-> [model |-> "llama3.2", endpoint |-> "/api/generate"]]

DefaultOllamaUrl == "http://localhost:11434"

\* One call of fetch: the provider whose client issued it, the URL, the
\* Authorization header and the object sent as the body.
Fetch(to, url, authorization, body) ==
  [to |-> to, url |-> url, authorization |-> authorization, body |-> body]

\* The body of the request of generateWithGemini.
GeminiBody(prompt) ==
  [contents |-> <<[parts |-> <<[text |-> prompt]>>]>>,
   generationConfig |-> [temperature |-> "0.4", maxOutputTokens |-> 4096, topP |-> "0.9"],
   safetySettings |->
     <<[category |-> "HARM_CATEGORY_HARASSMENT", threshold |-> "BLOCK_NONE"],
       [category |-> "HARM_CATEGORY_HATE_SPEECH", threshold |-> "BLOCK_NONE"],
       [category |-> "HARM_CATEGORY_SEXUALLY_EXPLICIT", threshold |-> "BLOCK_NONE"],
       [category |-> "HARM_CATEGORY_DANGEROUS_CONTENT", threshold |-> "BLOCK_NONE"]>>]

\* The body of the request of generateWithOpenAI.
OpenAIBody(prompt) ==
  [model |-> PROVIDERS.openai.model,
   messages |-> <<[role |-> "user", content |-> prompt]>>,
   temperature |-> "0.4", max_tokens |-> 4096]

\* The body of the request of generateWithOllama.
OllamaBody(prompt) ==
  [model |-> PROVIDERS.ollama.model, prompt |-> prompt, stream |-> FALSE,
   options |-> [temperature |-> "0.4", num_predict |-> 4096]]

\* What a client does before its first await: it throws, or it calls fetch.
Throws(message) == [threw |-> TRUE, result |-> Thrown(message), fetches |-> <<>>]
Awaits(fetch) == [threw |-> FALSE, result |-> NoResult, fetches |-> <<fetch>>]

\* generateWithGemini without its key check.
generateWithGeminiUnchecked(prompt, apiKey) ==
  Awaits(Fetch("gemini", <<PROVIDERS.gemini.endpoint, "?key=", apiKey>>, <<>>,
               GeminiBody(prompt)))

\* generateWithGemini up to the await of fetch.
generateWithGeminiStart(prompt, apiKey) ==
  IF Falsy(apiKey) THEN Throws(<<"Gemini API key is required">>)
  ELSE Awaits(Fetch("gemini", <<PROVIDERS.gemini.endpoint, "?key=", apiKey>>, <<>>,
               GeminiBody(prompt)))

\* generateWithOpenAI up to the await of fetch.
generateWithOpenAIStart(prompt, apiKey) ==
  IF Falsy(apiKey) THEN Throws(<<"OpenAI API key is required">>)
  ELSE Awaits(Fetch("openai", <<PROVIDERS.openai.endpoint>>, <<"Bearer ", apiKey>>,
                    OpenAIBody(prompt)))

\* generateWithOllama up to the await of fetch.
generateWithOllamaStart(prompt, baseUrl) ==
  Awaits(Fetch("ollama", <<OrElse(baseUrl, DefaultOllamaUrl), "/api/generate">>, <<>>,
               OllamaBody(prompt)))

\* generateWithProvider with every provider served by the Gemini client.
generateWithProviderStartGeminiOnly(prompt, config) ==
  generateWithGeminiUnchecked(prompt, OrElse(config.apiKey, "default-key"))

\* generateWithProvider up to the first await: the switch on config.provider.
generateWithProviderStart(prompt, config) ==
  CASE config.provider = "gemini" -> generateWithGeminiStart(prompt, config.apiKey)
    [] config.provider = "openai" -> generateWithOpenAIStart(prompt, config.openaiKey)
    [] config.provider = "ollama" -> generateWithOllamaStart(prompt, config.ollamaUrl)
    [] OTHER -> Throws(<<"Unknown provider: ", config.provider>>)

\* handleGeminiError with 403 left to the fallback.
handleGeminiErrorWithout403(status, raw) ==
  CASE status = 400 -> <<"Invalid request. Check your prompt.">>
    [] status = 401 -> <<"Invalid Gemini API key">>
    [] status = 429 -> <<"Rate limit: 15 req/min for free tier. Wait and retry.">>
    [] status >= 500 -> <<"Gemini API is temporarily unavailable">>
    [] OTHER -> IF raw # "" THEN <<raw>> ELSE <<"API error: ", ToString(status)>>

\* handleGeminiError: the message of the error it throws.
handleGeminiError(status, raw) ==
  CASE status = 400 -> <<"Invalid request. Check your prompt.">>
    [] status = 401 \/ status = 403 -> <<"Invalid Gemini API key">>
    [] status = 429 -> <<"Rate limit: 15 req/min for free tier. Wait and retry.">>
    [] status >= 500 -> <<"Gemini API is temporarily unavailable">>
    [] OTHER -> IF raw # "" THEN <<raw>> ELSE <<"API error: ", ToString(status)>>

\* The text generateWithGemini hands to cleanResponse.
GeminiText(data) == JoinLines(FilterText(data.parts))

\* generateWithGemini from the settling of fetch on.
generateWithGeminiSettle(ans) ==
  IF ans.type = "reject" THEN Thrown(<<ans.message>>)
  ELSE IF ~ResponseOk(ans.status) THEN Thrown(handleGeminiError(ans.status, ans.raw))
  ELSE IF ~ans.data.jsonOk THEN Thrown(<<JsonError>>)
  ELSE IF ans.data.blockReason # "" THEN Thrown(<<"Content blocked: ", ans.data.blockReason>>)
  ELSE IF ~ans.data.hasParts THEN Thrown(<<"No response from Gemini API">>)
  ELSE Resolved(cleanResponse(GeminiText(ans.data)))

\* The error branch of generateWithOpenAI: the message of the error thrown.
OpenAIError(status, raw) ==
  CASE status = 401 -> <<"Invalid OpenAI API key">>
    [] status = 429 -> <<"OpenAI rate limit exceeded">>
    [] status = 402 -> <<"OpenAI quota exceeded - add billing">>
    [] OTHER -> IF raw # "" THEN <<raw>> ELSE <<"OpenAI error: ", ToString(status)>>

\* generateWithOpenAI from the settling of fetch on.
generateWithOpenAISettle(ans) ==
  IF ans.type = "reject" THEN Thrown(<<ans.message>>)
  ELSE IF ~ResponseOk(ans.status) THEN Thrown(OpenAIError(ans.status, ans.raw))
  ELSE IF ~ans.data.jsonOk THEN Thrown(<<JsonError>>)
  ELSE IF ans.data.text = <<>> THEN Thrown(<<"No response from OpenAI">>)
  ELSE Resolved(cleanResponse(ans.data.text))

\* The error branch of generateWithOllama: the message of the error thrown.
OllamaError(status) ==
  IF status = 404
  THEN <<"Model \"", PROVIDERS.ollama.model, "\" not found. Run: ollama pull ",
         PROVIDERS.ollama.model>>
  ELSE <<"Ollama error: ", ToString(status)>>

\* The try block of generateWithOllama from the settling of fetch on.
OllamaTry(ans) ==
  IF ans.type = "reject" THEN Thrown(<<ans.message>>)
  ELSE IF ~ResponseOk(ans.status) THEN Thrown(OllamaError(ans.status))
  ELSE IF ~ans.data.jsonOk THEN Thrown(<<JsonError>>)
  ELSE Resolved(cleanResponse(ans.data.text))

\* generateWithOllama from the settling of fetch on: the try block and its
\* catch clause.
generateWithOllamaSettle(baseUrl, ans) ==
  LET tried == OllamaTry(ans) IN
  IF ~tried.ok /\ Includes(tried.message, "Failed to fetch")
  THEN Thrown(<<"Cannot connect to Ollama. Make sure it is running on ",
                OrElse(baseUrl, DefaultOllamaUrl)>>)
  ELSE tried

\* generateWithProvider from the settling of the fetch of the client `to` on.
generateWithProviderSettle(to, config, ans) ==
  CASE to = "gemini" -> generateWithGeminiSettle(ans)
    [] to = "openai" -> generateWithOpenAISettle(ans)
    [] OTHER -> generateWithOllamaSettle(config.ollamaUrl, ans)

-----------------------------------------------------------------------------
(* utils/storage.js                                                        *)

\* chrome.storage.local: the keys geminiApiKey, openaiApiKey, ollamaUrl and
\* aiProvider, and the key preferences.  A key never written is Undefined; an
\* absent preferences object reads as the defaults of loadPreferences.
EmptyStorage ==
  [geminiApiKey |-> Undefined, openaiApiKey |-> Undefined,
   ollamaUrl |-> Undefined, aiProvider |-> Undefined]

DefaultPreferences ==
  [noReadme |-> TRUE, fullCode |-> TRUE, shortSummary |-> TRUE, preferVanilla |-> TRUE,
   alwaysIncludeText |-> <<>>, savedSnippets |-> <<>>]

\* What the options page submits: handleSave trims the fields and replaces a
\* blank Ollama URL by the default one.
CredentialForms ==
  [provider : {"gemini", "openai", "ollama"},
   apiKey : {"", "AIza-key"},
   openaiKey : {"", "sk-key"},
   ollamaUrl : {DefaultOllamaUrl}]

PreferenceForms ==
  { DefaultPreferences,
    [noReadme |-> FALSE, fullCode |-> TRUE, shortSummary |-> FALSE, preferVanilla |-> TRUE,
     alwaysIncludeText |-> <<"Use TypeScript">>, savedSnippets |-> << <<"Add tests">> >>] }

\* loadPreferences: the value it resolves with.
loadPreferences(store, stored) ==
  [apiKey |-> OrElse(store.geminiApiKey, ""),
   openaiKey |-> OrElse(store.openaiApiKey, ""),
   ollamaUrl |-> OrElse(store.ollamaUrl, DefaultOllamaUrl),
   provider |-> OrElse(store.aiProvider, "gemini"),
   noReadme |-> stored.noReadme # FALSE,
   fullCode |-> stored.fullCode # FALSE,
   shortSummary |-> stored.shortSummary # FALSE,
   preferVanilla |-> stored.preferVanilla # FALSE,
   alwaysIncludeText |-> stored.alwaysIncludeText,
   savedSnippets |-> stored.savedSnippets]

-----------------------------------------------------------------------------
(* utils/assemblePayload.js                                                *)

\* String.prototype.split('\n'): the lines of a text.
RECURSIVE Split(_)
Split(t) ==
  LET breaks == {i \in DOMAIN t : t[i] = "\n"} IN
  IF breaks = {} THEN <<t>>
  ELSE LET first == CHOOSE i \in breaks : \A j \in breaks : i <= j IN
       <<SubSeq(t, 1, first - 1)>> \o Split(SubSeq(t, first + 1, Len(t)))

\* slice keeping the whole list.
SliceAll(list, n) == list

\* Array.prototype.slice(0, n)
Slice(list, n) == SubSeq(list, 1, IF Len(list) < n THEN Len(list) ELSE n)

\* Array.prototype.join(separator) of a list of texts.
RECURSIVE Join(_, _)
Join(ts, separator) ==
  IF ts = <<>> THEN <<>>
  ELSE IF Len(ts) = 1 THEN ts[1]
  ELSE ts[1] \o separator \o Join(Tail(ts), separator)

\* Array.prototype.filter(s => s && s.trim()) of a list of texts.
RECURSIVE FilterNonBlank(_)
FilterNonBlank(ts) ==
  IF ts = <<>> THEN <<>>
  ELSE IF Trim(Head(ts)) = <<>> THEN FilterNonBlank(Tail(ts))
  ELSE <<Head(ts)>> \o FilterNonBlank(Tail(ts))

\* The lines kept of a truncated file.
PreviewLines == 50

\* langMap of getLanguageFromExt
langMap ==
  [js |-> "javascript", jsx |-> "jsx", ts |-> "typescript", tsx |-> "tsx", py |-> "python",
   rb |-> "ruby", java |-> "java", cpp |-> "cpp", c |-> "c", cs |-> "csharp", go |-> "go",
   rs |-> "rust", php |-> "php", html |-> "html", css |-> "css", scss |-> "scss",
   json |-> "json", yaml |-> "yaml", yml |-> "yaml", md |-> "markdown", sql |-> "sql",
   sh |-> "bash", bash |-> "bash", zsh |-> "bash", ps1 |-> "powershell", txt |-> "text"]

\* A value, or the TypeError of a method call on undefined.
Value(v) == [threw |-> FALSE, value |-> v]
TypeError == [threw |-> TRUE, value |-> Undefined]

\* getLanguageFromExt with ext.toLowerCase() in place of ext?.toLowerCase().
getLanguageFromExtUnguarded(ext) ==
  IF ext = Undefined THEN TypeError
  ELSE LET lower == ToLowerCase(ext) IN
       Value(OrElse(OrElse(IF lower \in DOMAIN langMap THEN langMap[lower] ELSE Undefined,
                           ext), "text"))

\* getLanguageFromExt(ext): langMap[ext?.toLowerCase()] || ext || 'text'
getLanguageFromExt(ext) ==
  LET lower == IF ext = Undefined THEN Undefined ELSE ToLowerCase(ext) IN
  Value(OrElse(OrElse(IF lower \in DOMAIN langMap THEN langMap[lower] ELSE Undefined,
                      ext), "text"))

\* The literal pieces of the template literals of assemblePayload.
Template ==
  [PreambleHead |->
     "ROLE: You are an expert prompt engineer [...]\n\n4. CODE-SPECIFIC RULES:\n",
   PreambleTail |->
     "\n5. OUTPUT OPTIMIZATION:\n[...]\nThe output should be the prompt itself, ready to use.",
   NoReadmeRule |->
     "   - Do NOT include README files or documentation unless explicitly needed",
   FullCodeRule |->
     "   - Always provide complete, runnable code (no placeholders, no \"// rest of code here\")",
   FullCodeRule2 |->
     "   - Include all imports, dependencies, and boilerplate",
   PreferVanillaRule |->
     "   - Prefer vanilla JavaScript and standard web APIs when possible",
   PreferVanillaRule2 |->
     "   - For browser extensions, use Chrome Manifest V3",
   ShortSummaryRule |->
     "   - Keep explanations minimal; code should be self-documenting",
   ShortSummaryRule2 |->
     "   - Add a brief 2-3 line summary at the end only",
   RawHeader |->
     "\n\n---\nRAW PROMPT TO OPTIMIZE:\n---\n",
   AlwaysHeader |->
     "\n\n---\nADDITIONAL INSTRUCTIONS TO INCORPORATE:\n---\n",
   SnippetsHeader |->
     "\n\n---\nCONTEXT SNIPPETS (incorporate if relevant):\n---\n",
   SnippetSeparator |->
     "\n\n---\n\n",
   FilenamesHeader |->
     "\n\n---\nFILES DETECTED IN CLAUDE CONTEXT:\n---\n",
   FilenamesNote |->
     "\n\nNote: Reference these files appropriately in the optimized prompt if they are relevant to the task.",
   FilesHeader |->
     "\n\n---\nEMBEDDED FILES (include as context in the optimized prompt):\n---"]

\* The three backquotes that open and close a code block.
Fence == "<code fence>"

\* The rule whatever the flag.
RuleLineAlways(flag, rule) == <<rule, "\n">>

\* ${flag ? rule : ''} and the line break of the template after it.
RuleLine(flag, rule) == (IF flag THEN <<rule>> ELSE <<>>) \o <<"\n">>

\* The first part: the system instruction.
Preamble(prefs) ==
  <<Template.PreambleHead>>
    \o RuleLine(prefs.noReadme, Template.NoReadmeRule)
    \o RuleLine(prefs.fullCode, Template.FullCodeRule)
    \o RuleLine(prefs.fullCode, Template.FullCodeRule2)
    \o RuleLine(prefs.preferVanilla, Template.PreferVanillaRule)
    \o RuleLine(prefs.preferVanilla, Template.PreferVanillaRule2)
    \o RuleLine(prefs.shortSummary, Template.ShortSummaryRule)
    \o RuleLine(prefs.shortSummary, Template.ShortSummaryRule2)
    \o <<Template.PreambleTail>>

\* The part of the always-include text, if any.
AlwaysParts(prefs) ==
  IF prefs.alwaysIncludeText # <<>> /\ Trim(prefs.alwaysIncludeText) # <<>>
  THEN << <<Template.AlwaysHeader>> \o prefs.alwaysIncludeText >>
  ELSE <<>>

\* The part of the saved snippets, if any.
SnippetParts(prefs) ==
  LET validSnippets == FilterNonBlank(prefs.savedSnippets) IN
  IF Len(prefs.savedSnippets) > 0 /\ Len(validSnippets) > 0
  THEN << <<Template.SnippetsHeader>> \o Join(validSnippets, <<Template.SnippetSeparator>>) >>
  ELSE <<>>

\* The part of the scraped filenames, if any.
FilenameParts(scrapedFilenames) ==
  IF Len(scrapedFilenames) > 0
  THEN << <<Template.FilenamesHeader>>
             \o Join([i \in DOMAIN scrapedFilenames |-> <<scrapedFilenames[i]>>], <<", ">>)
             \o <<Template.FilenamesNote>> >>
  ELSE <<>>

\* The parts pushed for one embedded file.
FileParts(file, lang) ==
  << <<"\n=== ", file.name, " ===">>, <<Fence, lang>> >>
    \o (IF file.truncated
        THEN LET lines == Split(file.text) IN
             << Join(Slice(lines, PreviewLines), <<"\n">>),
                <<"\n... [TRUNCATED: showing 50 of ", ToString(Len(lines)), " lines]">> >>
        ELSE << file.text >>)
    \o << <<Fence>> >>

RECURSIVE EmbeddedParts(_)
EmbeddedParts(embeddedFiles) ==
  IF embeddedFiles = <<>> THEN <<>>
  ELSE FileParts(Head(embeddedFiles), getLanguageFromExt(Head(embeddedFiles).ext).value)
         \o EmbeddedParts(Tail(embeddedFiles))

\* The parts array with the filenames pushed before the snippets.
PayloadPartsFilenamesFirst(rawPrompt, prefs, scrapedFilenames, embeddedFiles) ==
  << Preamble(prefs), <<Template.RawHeader>> \o rawPrompt >>
    \o AlwaysParts(prefs)
    \o FilenameParts(scrapedFilenames)
    \o SnippetParts(prefs)
    \o (IF Len(embeddedFiles) > 0
        THEN << <<Template.FilesHeader>> >> \o EmbeddedParts(embeddedFiles)
        ELSE <<>>)

\* The parts array of assemblePayload when it returns.
PayloadParts(rawPrompt, prefs, scrapedFilenames, embeddedFiles) ==
  << Preamble(prefs), <<Template.RawHeader>> \o rawPrompt >>
    \o AlwaysParts(prefs)
    \o SnippetParts(prefs)
    \o FilenameParts(scrapedFilenames)
    \o (IF Len(embeddedFiles) > 0
        THEN << <<Template.FilesHeader>> >> \o EmbeddedParts(embeddedFiles)
        ELSE <<>>)

\* assemblePayload(rawPrompt, prefs, scrapedFilenames, embeddedFiles): the
\* string it returns, or the error it raises.
assemblePayload(rawPrompt, prefs, scrapedFilenames, embeddedFiles) ==
  IF \E i \in DOMAIN embeddedFiles : getLanguageFromExt(embeddedFiles[i].ext).threw
  THEN TypeError
  ELSE Value(JoinLines(PayloadParts(rawPrompt, prefs, scrapedFilenames, embeddedFiles)))

\* utils/assemblePayload.js of the first version: its literal pieces.
TemplateV1 ==
  [PreambleHead |->
     "ROLE: You optimize prompts for downstream coding LLMs (Claude, etc.).\n[...]\n\nHARD RULES:\n",
   PreambleTail |->
     "- If files are attached below, refer to them by filename [...]\nOUTPUT: A single Claude-ready prompt that the user can paste as-is.",
   NoReadmeRule |->
     "- Do NOT ask for a README and do NOT generate one.",
   FullCodeRule |->
     "- Require full, runnable code with a clear file tree and code blocks for each file.",
   PreferVanillaRule |->
     "- Prefer Chrome MV3 + vanilla HTML/CSS/JS when applicable; otherwise choose mainstream stacks.",
   ShortSummaryRule |->
     "- Keep explanations minimal; add a few-line summary at the end only.",
   RawHeader |->
     "\n\nRaw Prompt:\n",
   AlwaysHeader |->
     "\n\nAlways Include Instructions:\n",
   SnippetsHeader |->
     "\n\nSaved Snippets to Consider:\n",
   SnippetSeparator |->
     "\n---\n",
   FilenamesHeader |->
     "\n\nDetected Claude Files (names only):\n",
   FilesHeader |->
     "\n\nEmbedded Files:"]

\* `${value}` in a template literal
Interpolated(value) == IF value = Undefined THEN "undefined" ELSE value

PreambleV1(prefs) ==
  <<TemplateV1.PreambleHead>>
    \o RuleLine(prefs.noReadme, TemplateV1.NoReadmeRule)
    \o RuleLine(prefs.fullCode, TemplateV1.FullCodeRule)
    \o RuleLine(prefs.preferVanilla, TemplateV1.PreferVanillaRule)
    \o RuleLine(prefs.shortSummary, TemplateV1.ShortSummaryRule)
    \o <<TemplateV1.PreambleTail>>

\* if (prefs.alwaysIncludeText): no trim
AlwaysPartsV1(prefs) ==
  IF prefs.alwaysIncludeText # <<>>
  THEN << <<TemplateV1.AlwaysHeader>> \o prefs.alwaysIncludeText >>
  ELSE <<>>

SnippetPartsV1(prefs) ==
  LET validSnippets == FilterNonBlank(prefs.savedSnippets) IN
  IF Len(prefs.savedSnippets) > 0 /\ Len(validSnippets) > 0
  THEN << <<TemplateV1.SnippetsHeader>> \o Join(validSnippets, <<TemplateV1.SnippetSeparator>>) >>
  ELSE <<>>

FilenamePartsV1(scrapedFilenames) ==
  IF Len(scrapedFilenames) > 0
  THEN << <<TemplateV1.FilenamesHeader>>
             \o Join([i \in DOMAIN scrapedFilenames |-> <<scrapedFilenames[i]>>], <<", ">>) >>
  ELSE <<>>

FilePartsV1(file) ==
  << <<"\n=== FILE: ", file.name>>, <<Fence, Interpolated(file.ext)>> >>
    \o (IF file.truncated
        THEN LET lines == Split(file.text) IN
             << Join(Slice(lines, PreviewLines), <<"\n">>),
                <<"\n... [TRUNCATED - ", ToString(Len(lines)), " total lines]">> >>
        ELSE << file.text >>)
    \o << <<Fence>> >>

RECURSIVE EmbeddedPartsV1(_)
EmbeddedPartsV1(embeddedFiles) ==
  IF embeddedFiles = <<>> THEN <<>>
  ELSE FilePartsV1(Head(embeddedFiles)) \o EmbeddedPartsV1(Tail(embeddedFiles))

PayloadPartsV1(rawPrompt, prefs, scrapedFilenames, embeddedFiles) ==
  << PreambleV1(prefs), <<TemplateV1.RawHeader>> \o rawPrompt >>
    \o AlwaysPartsV1(prefs)
    \o SnippetPartsV1(prefs)
    \o FilenamePartsV1(scrapedFilenames)
    \o (IF Len(embeddedFiles) > 0
        THEN << <<TemplateV1.FilesHeader>> >> \o EmbeddedPartsV1(embeddedFiles)
        ELSE <<>>)

\* assemblePayload of the first version: s.trim() of its filter raises on a
\* snippet that is no string.
assemblePayloadV1(rawPrompt, prefs, scrapedFilenames, embeddedFiles) ==
  IF \E i \in DOMAIN prefs.savedSnippets : prefs.savedSnippets[i] = Undefined
  THEN TypeError
  ELSE Value(JoinLines(PayloadPartsV1(rawPrompt, prefs, scrapedFilenames, embeddedFiles)))

-----------------------------------------------------------------------------
(* background.js (v2): handleOptimize                                      *)

\* The config object handleOptimize builds from the preferences.
ProviderConfig(prefs) ==
  [provider |-> OrElse(prefs.provider, "gemini"), apiKey |-> prefs.apiKey,
   openaiKey |-> prefs.openaiKey, ollamaUrl |-> prefs.ollamaUrl]

Response(ok, prompt, error) == [ok |-> ok, prompt |-> prompt, error |-> error]
NoResponse == Response(FALSE, <<>>, <<"<none>">>)

\* The catch clause of handleOptimize: the error message it returns.
handleOptimizeCatch(message) ==
  IF Includes(message, "403")
  THEN <<"API key invalid or restricted. Check Options > API key">>
  ELSE IF Includes(message, "429")
  THEN <<"Rate limit exceeded. Please wait a moment and try again.">>
  ELSE IF Includes(message, "quota")
  THEN <<"API quota exceeded. Check your Google AI Studio dashboard.">>
  ELSE message

\* What handleOptimize returns once generateWithProvider has settled.
handleOptimizeReturn(settled) ==
  IF settled.ok THEN Response(TRUE, settled.text, <<>>)
  ELSE Response(FALSE, <<>>, handleOptimizeCatch(settled.message))

-----------------------------------------------------------------------------
(* State                                                                   *)

VARIABLES
  callPc,            \* generateWithProvider: "idle", "awaitFetch", "done"
  callConfig,        \* its config argument
  requests,          \* the fetch calls issued since the call began
  net,               \* how the fetch settled
  result,            \* how generateWithProvider settled
  bgPc,              \* background handleOptimize: "idle", "awaitPreferences",
                     \* "awaitGenerate", "responded"
  bgResponse,        \* what the listener passed to sendResponse
  sendResponseCalls, \* how often the listener has called sendResponse for the message
  storage,           \* chrome.storage.local: credentials and provider
  storedPreferences, \* chrome.storage.local: the preferences object
  promptHistory,     \* chrome.storage.local: the history, newest first
  rawPromptValue,        \* popup: elements.rawPrompt.value
  optimizedPromptValue,  \* popup: elements.optimizedPrompt.value
  optimizeBtnDisabled,   \* popup: elements.optimizeBtn.disabled
  autoOptimizeChecked,   \* popup: elements.autoOptimize.checked
  autoOptimizeTimeout,   \* popup: whether the timer of autoOptimizeTimeout is pending
  lastOriginalPrompt,    \* popup: module state
  lastOptimizedPrompt,   \* popup: module state
  calls,                 \* popup: the handleOptimize calls, by number
  nextCall,              \* popup: the number of the next handleOptimize call
  v1Pc,        \* first version: where the click handler and the worker are
  v1RawPrompt, \* first version, popup: rawPrompt of the click handler
  v1Prefs,     \* first version, popup: prefs of the click handler
  v1Payload,   \* first version: the payload of the OPTIMIZE message
  v1Requests,  \* first version, worker: the fetch calls issued
  v1Response,  \* first version, worker: the response to the message
  applied,     \* assemblePayload, estimateTokens, testProvider: the call, its arguments
  returned,    \* what the call returned
  historyCalls, \* the call of a history function each page has in progress
  now,          \* Date.now() at its last reading
  saved,        \* how many saveToHistory calls have begun
  interruptions, \* how many deletions, clearings and failed writes there have been
  keptEntries,  \* the entries saved and since neither deleted, cleared nor popped
  latest,       \* the entry of the most recent saveToHistory that resolved
  sidePanel     \* the side panel: its elements, its timers, its calls in progress

callVars == <<callPc, callConfig, requests, net, result>>
bgVars == <<bgPc, bgResponse, sendResponseCalls>>
storeVars == <<storage, storedPreferences>>
popupVars ==
  <<promptHistory, rawPromptValue, optimizedPromptValue, optimizeBtnDisabled,
    autoOptimizeChecked, autoOptimizeTimeout, lastOriginalPrompt, lastOptimizedPrompt,
    calls, nextCall>>
v1Vars == <<v1Pc, v1RawPrompt, v1Prefs, v1Payload, v1Requests, v1Response>>
fnVars == <<applied, returned>>
historyVars == <<historyCalls, now, saved, interruptions, keptEntries, latest>>
vars == <<callVars, bgVars, storeVars, popupVars, v1Vars, fnVars, historyVars, sidePanel>>

\* The pages that call the history functions of the storage module.
HistoryPages == {"popup", "sidePanel"}

NoHistoryCall == [pc |-> "idle"]
NoEntry == [id |-> "<none>"]

\* The side panel once DOMContentLoaded has run: nothing typed, the box
\* unchecked, autoOptimizeTimeout null (0), no call of handleOptimize made.
SidePanelLoaded ==
  [rawPrompt |-> <<>>, autoOptimize |-> FALSE, optimizeBtnDisabled |-> FALSE,
   optimizedPrompt |-> <<>>, autoOptimizeTimeout |-> 0, timers |-> {}, timersSet |-> 0,
   sinceInput |-> 0, inProgress |-> <<>>, begun |-> 0, autoTriggered |-> 0]

\* The configs a caller of generateWithProvider may pass.
Configs ==
  [provider : {"gemini", "openai", "ollama", "claude"},
   apiKey : {Undefined, "", "AIza-key"},
   openaiKey : {Undefined, "", "sk-key"},
   ollamaUrl : {Undefined, "http://192.168.1.5:11434"}]

NoConfig ==
  [provider |-> Undefined, apiKey |-> Undefined, openaiKey |-> Undefined,
   ollamaUrl |-> Undefined]

Payloads == {"<payload>"}

\* No function has been applied on its own yet.
NotApplied == [fn |-> "none"]

\* The handleOptimize calls of the popup in one run.
MaxCalls == 2

CallIds == 1..MaxCalls

\* generateOptimizedPrompt of the first version: requestBody
requestBodyV1(prompt) ==
  [contents |-> <<[parts |-> <<[text |-> prompt]>>]>>,
   generationConfig |-> [temperature |-> "0.7", maxOutputTokens |-> 8192, topP |-> "0.95"]]

\* storage.js of the first version: loadPreferences
loadPreferencesV1(store, stored) ==
  [apiKey |-> OrElse(store.geminiApiKey, ""),
   noReadme |-> stored.noReadme # FALSE,
   fullCode |-> stored.fullCode # FALSE,
   shortSummary |-> stored.shortSummary # FALSE,
   preferVanilla |-> stored.preferVanilla # FALSE,
   alwaysIncludeText |-> stored.alwaysIncludeText,
   savedSnippets |-> stored.savedSnippets]

NoPrefsV1 == loadPreferencesV1(EmptyStorage, DefaultPreferences)

\* No payload assembled yet.
NoPayload == <<>>

\* The prefs of a call that has not read them yet.
NoPrefs == loadPreferences(EmptyStorage, DefaultPreferences)

\* What the popup and the history hold at one moment.
Remembered(original, optimized, history) ==
  [original |-> original, optimized |-> optimized, history |-> history]

\* A handleOptimize call of the popup: where it is suspended, its locals
\* (rawPrompt, prefs, optimized, the history list of saveToHistory), the
\* fetch calls it issued, and how the call ended.  `before` and `alone` record, for the properties, what was
\* remembered when the call started and whether no other call was in
\* progress during it.
NoCall ==
  [pc |-> "none", rawPrompt |-> <<>>, prefs |-> NoPrefs, fetches |-> <<>>,
   optimized |-> <<>>, history |-> <<>>, before |-> Remembered(<<>>, <<>>, <<>>),
   alone |-> TRUE, outcome |-> ""]

Init ==
  /\ callPc = "idle"
  /\ callConfig = NoConfig
  /\ requests = <<>>
  /\ net = NoAnswer
  /\ result = NoResult
  /\ bgPc = "idle"
  /\ bgResponse = NoResponse
  /\ sendResponseCalls = 0
  /\ storage = EmptyStorage
  /\ storedPreferences = DefaultPreferences
  /\ promptHistory = <<>>
  /\ rawPromptValue = <<>>
  /\ optimizedPromptValue = <<>>
  /\ optimizeBtnDisabled = FALSE
  /\ autoOptimizeChecked = FALSE
  /\ autoOptimizeTimeout = FALSE
  /\ lastOriginalPrompt = <<>>
  /\ lastOptimizedPrompt = <<>>
  /\ calls = [c \in CallIds |-> NoCall]
  /\ nextCall = 1
  /\ v1Pc = "idle"
  /\ v1RawPrompt = <<>>
  /\ v1Prefs = NoPrefsV1
  /\ v1Payload = NoPayload
  /\ v1Requests = <<>>
  /\ v1Response = NoResponse
  /\ applied = NotApplied
  /\ returned = Value(<<>>)
  /\ historyCalls = [p \in HistoryPages |-> NoHistoryCall]
  /\ now = 0
  /\ saved = 0
  /\ interruptions = 0
  /\ keptEntries = {}
  /\ latest = NoEntry
  /\ sidePanel = SidePanelLoaded

\* generateWithProvider(prompt, config) runs up to its first await.
Begin(prompt, config) ==
  LET start == generateWithProviderStart(prompt, config) IN
  /\ callConfig' = config
  /\ requests' = requests \o start.fetches
  /\ result' = start.result
  /\ net' = NoAnswer
  /\ callPc' = IF start.threw THEN "done" ELSE "awaitFetch"

\* The client that awaits the fetch.
Awaiting == requests[Len(requests)].to

\* A caller other than the background worker calls generateWithProvider.
Invoke ==
  /\ callPc = "idle" /\ bgPc = "idle"
  /\ \E prompt \in Payloads, config \in Configs : Begin(prompt, config)
  /\ UNCHANGED <<bgVars, fnVars, historyVars, sidePanel, storeVars, popupVars, v1Vars>>

\* The text bound of the answers to the call in flight.
TextBound == IF bgPc = "idle" THEN MaxTextLen ELSE MaxRelayedTextLen

\* fetch rejects: no response at all.
FetchRejects ==
  /\ callPc = "awaitFetch"
  /\ \E ans \in Rejections :
       /\ net' = ans
       /\ result' = generateWithProviderSettle(Awaiting, callConfig, ans)
  /\ callPc' = "done"
  /\ UNCHANGED <<callConfig, requests, bgVars, fnVars, historyVars, sidePanel, storeVars, popupVars, v1Vars>>

\* fetch resolves with an HTTP response.
FetchResponds ==
  /\ callPc = "awaitFetch"
  /\ \E ans \in Responses(Awaiting, TextBound) :
       /\ net' = ans
       /\ result' = generateWithProviderSettle(Awaiting, callConfig, ans)
  /\ callPc' = "done"
  /\ UNCHANGED <<callConfig, requests, bgVars, fnVars, historyVars, sidePanel, storeVars, popupVars, v1Vars>>

\* The caller has taken the result; the next call may begin.
Return ==
  /\ callPc = "done" /\ bgPc = "idle"
  /\ callPc' = "idle"
  /\ callConfig' = NoConfig
  /\ requests' = <<>>
  /\ net' = NoAnswer
  /\ result' = NoResult
  /\ UNCHANGED <<bgVars, fnVars, historyVars, sidePanel, storeVars, popupVars, v1Vars>>

Next == Invoke \/ FetchRejects \/ FetchResponds \/ Return

Spec == Init /\ [][Next]_vars

-----------------------------------------------------------------------------
(* The background worker                                                   *)

\* savePreferences(prefs) with one of the given forms.
Save(creds, prefs) ==
  /\ \E cred \in creds, pref \in prefs :
       /\ storage' = [geminiApiKey |-> cred.apiKey, openaiApiKey |-> cred.openaiKey,
                      ollamaUrl |-> cred.ollamaUrl, aiProvider |-> cred.provider]
       /\ storedPreferences' = pref
  /\ UNCHANGED <<callVars, bgVars, fnVars, historyVars, sidePanel, popupVars, v1Vars>>

\* The options page saves: savePreferences(prefs).
SavePreferences == Save(CredentialForms, PreferenceForms)

\* An OPTIMIZE message arrives: handleOptimize loads the preferences, checks
\* the Gemini key and calls generateWithProvider. When the read of the store
\* fails, chrome.runtime.lastError is set and the callback of loadPreferences
\* gets no result: it throws on result[...] before it resolves, and the
\* promise handleOptimize awaits stays pending.
OnMessageOptimize ==
  /\ bgPc = "idle" /\ callPc = "idle"
  /\ \E payload \in Payloads, lastError \in BOOLEAN :
       LET prefs == loadPreferences(storage, storedPreferences) IN
       IF lastError
       THEN /\ bgPc' = "awaitPreferences"
            /\ bgResponse' = NoResponse
            /\ sendResponseCalls' = 0
            /\ UNCHANGED callVars
       ELSE IF Falsy(prefs.apiKey) /\ prefs.provider = "gemini"
       THEN /\ bgResponse' =
                 Response(FALSE, <<>>, <<"API key not configured. Please set it in Options.">>)
            /\ bgPc' = "responded"
            /\ sendResponseCalls' = 1
            /\ UNCHANGED callVars
       ELSE /\ Begin(payload, ProviderConfig(prefs))
            /\ bgPc' = "awaitGenerate"
            /\ bgResponse' = NoResponse
            /\ sendResponseCalls' = 0
  /\ UNCHANGED <<storeVars, fnVars, historyVars, sidePanel, popupVars, v1Vars>>

\* generateWithProvider has settled: handleOptimize returns and the listener
\* calls sendResponse.
OptimizeSettles ==
  /\ bgPc = "awaitGenerate" /\ callPc = "done"
  /\ bgResponse' = handleOptimizeReturn(result)
  /\ sendResponseCalls' = sendResponseCalls + 1
  /\ bgPc' = "responded"
  /\ UNCHANGED <<callVars, storeVars, fnVars, historyVars, sidePanel, popupVars, v1Vars>>

\* The message channel closes.
ChannelCloses ==
  /\ bgPc = "responded"
  /\ bgPc' = "idle"
  /\ bgResponse' = NoResponse
  /\ sendResponseCalls' = 0
  /\ callPc' = "idle"
  /\ callConfig' = NoConfig
  /\ requests' = <<>>
  /\ net' = NoAnswer
  /\ result' = NoResult
  /\ UNCHANGED <<storeVars, fnVars, historyVars, sidePanel, popupVars, v1Vars>>

NextBackground ==
  \/ SavePreferences \/ OnMessageOptimize \/ FetchRejects \/ FetchResponds
  \/ OptimizeSettles \/ ChannelCloses

SpecBackground == Init /\ [][NextBackground]_vars

\* The worker with every pending fetch settling and every settled promise
\* running its continuation.
SpecBackgroundLive ==
  /\ SpecBackground
  /\ WF_vars(FetchRejects \/ FetchResponds)
  /\ WF_vars(OptimizeSettles)

-----------------------------------------------------------------------------
(* The popup                                                               *)

\* What the user may have in the prompt box.
PromptValues ==
  {<<>>, <<"fix my code">>, <<" ", "add a test", "\n">>}

\* The forms saved while the popup is open: Gemini with its key, or OpenAI
\* without its key.
PopupCredentialForms ==
  {cred \in CredentialForms :
     \/ cred.provider = "gemini" /\ cred.apiKey # "" /\ cred.openaiKey = ""
     \/ cred.provider = "openai" /\ cred.apiKey = "" /\ cred.openaiKey = ""}

SaveCredentials == Save(PopupCredentialForms, {DefaultPreferences})

\* DEFAULT_PRESETS, by id: the preferences of each preset.
DEFAULT_PRESETS ==
  [quick |-> [noReadme |-> TRUE, fullCode |-> TRUE, shortSummary |-> TRUE,
              preferVanilla |-> TRUE],
   learning |-> [noReadme |-> FALSE, fullCode |-> TRUE, shortSummary |-> FALSE,
                 preferVanilla |-> FALSE],
   docs |-> [noReadme |-> FALSE, fullCode |-> FALSE, shortSummary |-> FALSE,
             preferVanilla |-> FALSE]]

\* activePresetId as the module initialises it.
activePresetId == "quick"

\* mergedPrefs = { ...prefs, ...(activePreset?.preferences || {}) }
mergedPrefs(prefs) ==
  LET preset == DEFAULT_PRESETS[activePresetId] IN
  [name \in DOMAIN prefs \cup DOMAIN preset |->
     IF name \in DOMAIN preset THEN preset[name] ELSE prefs[name]]

\* What assemblePayload is given by the popup: no scraped filenames (the
\* active tab is not a Claude tab) and no attached files.
PopupPayload(rawPrompt, prefs) ==
  assemblePayload(rawPrompt, mergedPrefs(prefs), <<>>, <<>>).value

\* The answers the provider may give to a request of the popup: no response,
\* a rate limit, or a text made from the prompt.
PopupAnswers(rawPrompt) ==
  LET text == <<"Optimized prompt", ":", " ", "OPTIMIZED PROMPT">> \o rawPrompt IN
  {[type |-> "reject", message |-> "Failed to fetch", status |-> 0, raw |-> "",
    data |-> NoData],
   [type |-> "response", message |-> "", status |-> 429, raw |-> "", data |-> NoData],
   [type |-> "response", message |-> "", status |-> 200, raw |-> "",
    data |-> [NoData EXCEPT !.hasParts = TRUE, !.parts = <<text>>, !.text = text]]}

MAX_HISTORY_ITEMS == 50

\* history.unshift(entry) alone.
UnshiftUncapped(history, entry) == <<entry>> \o history

\* history.unshift(entry), then history.pop() beyond MAX_HISTORY_ITEMS
Unshift(history, entry) ==
  LET longer == <<entry>> \o history IN
  IF Len(longer) > MAX_HISTORY_ITEMS THEN SubSeq(longer, 1, Len(longer) - 1) ELSE longer

Active(c) == calls[c].pc \notin {"none", "finished"}

\* The call has returned: the finally block has run.  Of its locals, the
\* record keeps those of a call that succeeded.
Finished(call, outcome) ==
  IF outcome = "succeeded"
  THEN [NoCall EXCEPT !.pc = "finished", !.rawPrompt = call.rawPrompt,
                      !.optimized = call.optimized, !.outcome = outcome]
  ELSE [NoCall EXCEPT !.pc = "finished", !.outcome = outcome]

\* handleOptimize() up to its first await.
handleOptimize ==
  LET rawPrompt == Trim(rawPromptValue)
      c == nextCall
  IN
  IF rawPrompt = <<>>
  THEN UNCHANGED <<optimizeBtnDisabled, lastOriginalPrompt, calls, nextCall>>
  ELSE /\ optimizeBtnDisabled' = TRUE
       /\ lastOriginalPrompt' = rawPrompt
       /\ calls' =
            [d \in CallIds |->
               IF d = c
               THEN [NoCall EXCEPT !.pc = "loadPreferences", !.rawPrompt = rawPrompt,
                                   !.before = Remembered(lastOriginalPrompt,
                                                         lastOptimizedPrompt,
                                                         promptHistory),
                                   !.alone = \A e \in CallIds : ~Active(e)]
               ELSE IF Active(d) THEN [calls[d] EXCEPT !.alone = FALSE]
               ELSE calls[d]]
       /\ nextCall' = nextCall + 1

\* The user edits the prompt: handlePromptInput.
Input ==
  /\ \E value \in PromptValues : rawPromptValue' = value
  /\ rawPromptValue' # rawPromptValue
  /\ autoOptimizeTimeout' = (autoOptimizeChecked \/ autoOptimizeTimeout)
  /\ UNCHANGED <<callVars, bgVars, fnVars, historyVars, sidePanel, v1Vars, storeVars, promptHistory, optimizedPromptValue,
                 optimizeBtnDisabled, autoOptimizeChecked, lastOriginalPrompt,
                 lastOptimizedPrompt, calls, nextCall>>

\* The user toggles the auto-optimize box: handleAutoOptimizeChange.
ToggleAutoOptimize ==
  /\ autoOptimizeChecked' = ~autoOptimizeChecked
  /\ autoOptimizeTimeout' = (autoOptimizeChecked' /\ autoOptimizeTimeout)
  /\ UNCHANGED <<callVars, bgVars, fnVars, historyVars, sidePanel, v1Vars, storeVars, promptHistory, rawPromptValue,
                 optimizedPromptValue, optimizeBtnDisabled, lastOriginalPrompt,
                 lastOptimizedPrompt, calls, nextCall>>

\* A click on the optimize button, which a disabled button does not deliver.
ClickOptimize ==
  /\ ~optimizeBtnDisabled
  /\ nextCall <= MaxCalls
  /\ handleOptimize
  /\ UNCHANGED <<callVars, bgVars, fnVars, historyVars, sidePanel, v1Vars, storeVars, promptHistory, rawPromptValue,
                 optimizedPromptValue, autoOptimizeChecked, autoOptimizeTimeout,
                 lastOptimizedPrompt>>

\* Ctrl/Cmd+Enter: setupKeyboardShortcuts calls handleOptimize.
CtrlEnter ==
  /\ nextCall <= MaxCalls
  /\ handleOptimize
  /\ UNCHANGED <<callVars, bgVars, fnVars, historyVars, sidePanel, v1Vars, storeVars, promptHistory, rawPromptValue,
                 optimizedPromptValue, autoOptimizeChecked, autoOptimizeTimeout,
                 lastOptimizedPrompt>>

\* The auto-optimize timer fires.
TimerFires ==
  /\ autoOptimizeTimeout
  /\ nextCall <= MaxCalls
  /\ autoOptimizeTimeout' = FALSE
  /\ handleOptimize
  /\ UNCHANGED <<callVars, bgVars, fnVars, historyVars, sidePanel, v1Vars, storeVars, promptHistory, rawPromptValue,
                 optimizedPromptValue, autoOptimizeChecked, lastOptimizedPrompt>>

\* The call returns; `finally` runs setLoading(false).
Returns(c, outcome) ==
  /\ calls' = [calls EXCEPT ![c] = Finished(calls[c], outcome)]
  /\ optimizeBtnDisabled' = FALSE

\* loadPreferences() resolves: the key check of handleOptimize.
LoadPreferencesResolves(c) ==
  /\ calls[c].pc = "loadPreferences"
  /\ LET prefs == loadPreferences(storage, storedPreferences) IN
     IF Falsy(prefs.apiKey) /\ prefs.provider = "gemini"
     THEN Returns(c, "failed")
     ELSE /\ calls' = [calls EXCEPT ![c].pc = "getPresets", ![c].prefs = prefs]
          /\ UNCHANGED optimizeBtnDisabled
  /\ UNCHANGED <<callVars, bgVars, fnVars, historyVars, sidePanel, v1Vars, storeVars, promptHistory, rawPromptValue,
                 optimizedPromptValue, autoOptimizeChecked, autoOptimizeTimeout,
                 lastOriginalPrompt, lastOptimizedPrompt, nextCall>>

\* getPresets() resolves: the payload is assembled and generateWithProvider
\* is called.
GetPresetsResolves(c) ==
  /\ calls[c].pc = "getPresets"
  /\ LET payload == PopupPayload(calls[c].rawPrompt, calls[c].prefs)
         start == generateWithProviderStart(payload, ProviderConfig(calls[c].prefs))
     IN
     IF start.threw
     THEN Returns(c, "failed")
     ELSE /\ calls' = [calls EXCEPT ![c].pc = "generate", ![c].fetches = start.fetches]
          /\ UNCHANGED optimizeBtnDisabled
  /\ UNCHANGED <<callVars, bgVars, fnVars, historyVars, sidePanel, v1Vars, storeVars, promptHistory, rawPromptValue,
                 optimizedPromptValue, autoOptimizeChecked, autoOptimizeTimeout,
                 lastOriginalPrompt, lastOptimizedPrompt, nextCall>>

\* generateWithProvider settles: on success the result is remembered and
\* saveToHistory is called.
GenerateSettles(c) ==
  /\ calls[c].pc = "generate"
  /\ \E ans \in PopupAnswers(calls[c].rawPrompt) :
       LET to == calls[c].fetches[Len(calls[c].fetches)].to
           settled == generateWithProviderSettle(to, ProviderConfig(calls[c].prefs), ans)
       IN
       IF settled.ok
       THEN /\ lastOptimizedPrompt' = settled.text
            /\ calls' = [calls EXCEPT ![c].pc = "getHistory", ![c].optimized = settled.text]
            /\ UNCHANGED optimizeBtnDisabled
       ELSE /\ Returns(c, "failed")
            /\ UNCHANGED lastOptimizedPrompt
  /\ UNCHANGED <<callVars, bgVars, fnVars, historyVars, sidePanel, v1Vars, storeVars, promptHistory, rawPromptValue,
                 optimizedPromptValue, autoOptimizeChecked, autoOptimizeTimeout,
                 lastOriginalPrompt, nextCall>>

\* getHistory() resolves inside saveToHistory: the entry is put first in the
\* list that was read and the list is handed to chrome.storage.local.set.
GetHistoryResolves(c) ==
  /\ calls[c].pc = "getHistory"
  /\ LET entry == [original |-> calls[c].rawPrompt, optimized |-> calls[c].optimized] IN
     calls' = [calls EXCEPT ![c].pc = "setHistory",
                            ![c].history = Unshift(promptHistory, entry)]
  /\ UNCHANGED <<callVars, bgVars, fnVars, historyVars, sidePanel, v1Vars, storeVars, promptHistory, rawPromptValue,
                 optimizedPromptValue, optimizeBtnDisabled, autoOptimizeChecked,
                 autoOptimizeTimeout, lastOriginalPrompt, lastOptimizedPrompt, nextCall>>

\* The write of saveToHistory completes: the result is shown; or it sets
\* chrome.runtime.lastError and the catch clause runs.
SaveToHistorySettles(c) ==
  /\ calls[c].pc = "setHistory"
  /\ \E lastError \in BOOLEAN :
       IF lastError
       THEN /\ Returns(c, "saveFailed")
            /\ UNCHANGED <<promptHistory, optimizedPromptValue>>
       ELSE /\ promptHistory' = calls[c].history
            /\ optimizedPromptValue' = calls[c].optimized
            /\ Returns(c, "succeeded")
  /\ UNCHANGED <<callVars, bgVars, fnVars, historyVars, sidePanel, v1Vars, storeVars, rawPromptValue, autoOptimizeChecked,
                 autoOptimizeTimeout, lastOriginalPrompt, lastOptimizedPrompt, nextCall>>

NextPopup ==
  \/ SaveCredentials \/ Input \/ ToggleAutoOptimize
  \/ ClickOptimize \/ CtrlEnter \/ TimerFires
  \/ \E c \in CallIds :
       \/ LoadPreferencesResolves(c) \/ GetPresetsResolves(c) \/ GenerateSettles(c)
       \/ GetHistoryResolves(c) \/ SaveToHistorySettles(c)

SpecPopup == Init /\ [][NextPopup]_vars

-----------------------------------------------------------------------------
(* The first version: popup.js, background.js, geminiClient.js, storage.js *)

API_ENDPOINT ==
  "https://generativelanguage.googleapis.com/v1beta/models/gemini-1.5-flash:generateContent"

\* What the options page of the first version submits.
ApiKeyForms == {"", "AIza-key", "AIza-other-key"}

\* The options page saves: savePreferences(prefs) writes the key and the
\* preferences object.
SavePreferencesV1 ==
  /\ \E apiKey \in ApiKeyForms, pref \in PreferenceForms :
       /\ storage' = [storage EXCEPT !.geminiApiKey = apiKey]
       /\ storedPreferences' = pref
  /\ UNCHANGED <<callVars, bgVars, fnVars, historyVars, sidePanel, popupVars, v1Vars>>

\* generateOptimizedPrompt(prompt, apiKey) from the settling of fetch on.
generateOptimizedPromptV1(ans) ==
  LET caught(message) ==
        IF Includes(message, "Failed to fetch")
        THEN Thrown(<<"Network error. Check your internet connection.">>)
        ELSE Thrown(message)
  IN
  IF ans.type = "reject" THEN caught(<<ans.message>>)
  ELSE IF ~ResponseOk(ans.status)
  THEN caught(IF ans.raw # "" THEN <<ans.raw>>
              ELSE <<"API request failed: ", ToString(ans.status)>>)
  ELSE IF ~ans.data.jsonOk THEN caught(<<JsonError>>)
  ELSE IF ~ans.data.hasParts THEN caught(<<"Invalid API response format">>)
  ELSE IF FilterText(ans.data.parts) = <<>>
  THEN caught(<<"No text content in API response">>)
  ELSE Resolved(JoinLines(FilterText(ans.data.parts)))

\* The catch clause of handleOptimize: the error message it returns.
handleOptimizeCatchV1(message) ==
  IF Includes(message, "403")
  THEN <<"API key invalid or restricted. Check Options > API key">>
  ELSE IF Includes(message, "429")
  THEN <<"Rate limit exceeded. Please wait a moment and try again.">>
  ELSE IF Includes(message, "quota")
  THEN <<"API quota exceeded. Check your Google AI Studio dashboard.">>
  ELSE message

\* A click on the optimize button: the handler up to its first await.
ClickOptimizeV1 ==
  /\ v1Pc = "idle"
  /\ ~optimizeBtnDisabled
  /\ LET rawPrompt == Trim(rawPromptValue) IN
     IF rawPrompt = <<>>
     THEN UNCHANGED <<optimizeBtnDisabled, v1Pc, v1RawPrompt>>
     ELSE /\ optimizeBtnDisabled' = TRUE
          /\ v1RawPrompt' = rawPrompt
          /\ v1Pc' = "loadPreferences"
  /\ UNCHANGED <<callVars, bgVars, fnVars, historyVars, sidePanel, storeVars, promptHistory, rawPromptValue,
                 optimizedPromptValue, autoOptimizeChecked, autoOptimizeTimeout,
                 lastOriginalPrompt, lastOptimizedPrompt, calls, nextCall,
                 v1Prefs, v1Payload, v1Requests, v1Response>>

\* loadPreferences() resolves in the popup: the payload is assembled (nothing
\* scraped, no file uploaded) and the OPTIMIZE message is sent.
PopupLoadsV1 ==
  /\ v1Pc = "loadPreferences"
  /\ LET prefs == loadPreferencesV1(storage, storedPreferences) IN
     /\ v1Prefs' = prefs
     /\ v1Payload' = assemblePayloadV1(v1RawPrompt, prefs, <<>>, <<>>).value
  /\ v1Pc' = "message"
  /\ UNCHANGED <<callVars, bgVars, fnVars, historyVars, sidePanel, storeVars, popupVars, v1RawPrompt, v1Requests,
                 v1Response>>

\* loadPreferences() resolves in handleOptimize of the worker: the key check
\* and the call of generateOptimizedPrompt, up to the await of fetch.
BackgroundLoadsV1 ==
  /\ v1Pc = "message"
  /\ LET prefs == loadPreferencesV1(storage, storedPreferences) IN
     IF Falsy(prefs.apiKey)
     THEN /\ v1Response' =
               Response(FALSE, <<>>, <<"API key not configured. Please set it in Options.">>)
          /\ v1Pc' = "responded"
          /\ UNCHANGED v1Requests
     ELSE /\ v1Requests' =
               <<Fetch("gemini", <<API_ENDPOINT, "?key=", prefs.apiKey>>, <<>>,
                       requestBodyV1(v1Payload))>>
          /\ v1Pc' = "fetch"
          /\ UNCHANGED v1Response
  /\ UNCHANGED <<callVars, bgVars, fnVars, historyVars, sidePanel, storeVars, popupVars, v1RawPrompt, v1Prefs, v1Payload>>

\* fetch settles: generateOptimizedPrompt settles and handleOptimize returns
\* the response.
FetchSettlesV1 ==
  /\ v1Pc = "fetch"
  /\ \E ans \in PopupAnswers(v1RawPrompt) :
       LET settled == generateOptimizedPromptV1(ans) IN
       v1Response' =
         IF settled.ok THEN Response(TRUE, settled.text, <<>>)
         ELSE Response(FALSE, <<>>, handleOptimizeCatchV1(settled.message))
  /\ v1Pc' = "responded"
  /\ UNCHANGED <<callVars, bgVars, fnVars, historyVars, sidePanel, storeVars, popupVars, v1RawPrompt, v1Prefs, v1Payload,
                 v1Requests>>

\* The response reaches the popup: the handler shows it and ends.
PopupReceivesV1 ==
  /\ v1Pc = "responded"
  /\ optimizedPromptValue' =
       IF v1Response.ok THEN v1Response.prompt ELSE optimizedPromptValue
  /\ optimizeBtnDisabled' = FALSE
  /\ v1Pc' = "idle"
  /\ v1RawPrompt' = <<>>
  /\ v1Prefs' = NoPrefsV1
  /\ v1Payload' = NoPayload
  /\ v1Requests' = <<>>
  /\ v1Response' = NoResponse
  /\ UNCHANGED <<callVars, bgVars, fnVars, historyVars, sidePanel, storeVars, promptHistory, rawPromptValue,
                 autoOptimizeChecked, autoOptimizeTimeout, lastOriginalPrompt,
                 lastOptimizedPrompt, calls, nextCall>>

NextV1 ==
  \/ SavePreferencesV1 \/ Input \/ ClickOptimizeV1 \/ PopupLoadsV1
  \/ BackgroundLoadsV1 \/ FetchSettlesV1 \/ PopupReceivesV1

SpecV1 == Init /\ [][NextV1]_vars

-----------------------------------------------------------------------------
(* assemblePayload and the scraper, applied to chosen inputs               *)

\* Longest list of saved snippets, of filenames and of context files.
MaxSnippets == 2
MaxFilenames == 3
MaxFiles == 2

\* A text of n lines: the lines "1", "2", ..., "n".
Lines(n) == [i \in 1..(2 * n - 1) |-> IF i % 2 = 1 THEN ToString((i + 1) \div 2) ELSE "\n"]

Filenames == {"a.py", "A.py", "b.js"}

\* The context files of the data model: the extension may be absent.
FileForms ==
  [name : {"main.py"}, ext : {Undefined, "PY"},
   text : {Lines(1), Lines(50), Lines(51), Lines(75)}, truncated : BOOLEAN]

\* The preference sets of the data model, as far as assemblePayload reads them.
AssemblePrefs ==
  [noReadme : BOOLEAN, fullCode : BOOLEAN, shortSummary : BOOLEAN, preferVanilla : BOOLEAN,
   alwaysIncludeText : {<<>>, <<" ">>, <<"Use TypeScript">>},
   savedSnippets :
     SeqsUpTo({<<>>, <<" ", "\n">>, <<"Add tests">>, <<"Use hooks">>}, MaxSnippets)]

Arguments(rawPrompt, prefs, scrapedFilenames, embeddedFiles) ==
  [rawPrompt |-> rawPrompt, prefs |-> prefs, scrapedFilenames |-> scrapedFilenames,
   embeddedFiles |-> embeddedFiles]

\* Some of the preference sets.
SomePrefs ==
  {p \in AssemblePrefs :
     /\ p.noReadme = p.fullCode /\ p.fullCode = p.shortSummary /\ p.preferVanilla
     /\ \/ p.alwaysIncludeText = <<>> /\ p.savedSnippets = <<>>
        \/ p.alwaysIncludeText = <<"Use TypeScript">> /\ p.savedSnippets = << <<"Add tests">> >>}

\* The argument lists assemblePayload is applied to: every preference set,
\* every filename list and every list of context files, each with some of
\* the other arguments.
AssembleArguments ==
  LET SomeFilenames == {<<>>, <<"a.py", "b.js">>}
      SomeFiles ==
        {<<>>, << [name |-> "main.py", ext |-> "PY", text |-> Lines(51), truncated |-> TRUE] >>}
  IN
  { Arguments(r, p, n, <<>>) :
      r \in {<<"fix my code">>, <<"fix my code", "\n", "add a test">>},
      p \in AssemblePrefs, n \in SomeFilenames } \cup
  { Arguments(<<"fix my code">>, p, n, f) : p \in SomePrefs,
      n \in SeqsUpTo(Filenames, MaxFilenames), f \in SomeFiles } \cup
  { Arguments(<<"fix my code">>, p, n, f) : p \in SomePrefs, n \in SomeFilenames,
      f \in SeqsUpTo(FileForms, MaxFiles) }

\* scrapeFilenames collecting the names in an array in place of a Set.
scrapeFilenamesInArray(found) == found

\* scrapeFilenames: the names found on the page are added to a Set, which
\* keeps the first of equal names, and Array.from lists the Set.
RECURSIVE scrapeFilenames(_)
scrapeFilenames(found) ==
  IF found = <<>> THEN <<>>
  ELSE LET earlier == scrapeFilenames(SubSeq(found, 1, Len(found) - 1))
           name == found[Len(found)]
       IN  IF \E i \in DOMAIN earlier : earlier[i] = name THEN earlier
           ELSE Append(earlier, name)

Applied(fn, found, args) ==
  [fn |-> fn, found |-> found, rawPrompt |-> args.rawPrompt, prefs |-> args.prefs,
   scrapedFilenames |-> args.scrapedFilenames, embeddedFiles |-> args.embeddedFiles]

\* assemblePayload is applied to arguments of the data model.
AssemblePayload ==
  /\ applied = NotApplied
  /\ \E a \in AssembleArguments :
       /\ applied' = Applied("assemblePayload", <<>>, a)
       /\ returned' =
            assemblePayload(a.rawPrompt, a.prefs, a.scrapedFilenames, a.embeddedFiles)
  /\ UNCHANGED <<callVars, bgVars, storeVars, popupVars, v1Vars, historyVars, sidePanel>>

\* assemblePayload of the first version is applied to them.
AssemblePayloadV1 ==
  /\ applied = NotApplied
  /\ \E a \in AssembleArguments :
       /\ applied' = Applied("assemblePayloadV1", <<>>, a)
       /\ returned' =
            assemblePayloadV1(a.rawPrompt, a.prefs, a.scrapedFilenames, a.embeddedFiles)
  /\ UNCHANGED <<callVars, bgVars, storeVars, popupVars, v1Vars, historyVars, sidePanel>>

\* scrapeClaudeFiles of the popup: the content script answers with
\* scrapeFilenames(), and handleOptimize hands the list to assemblePayload.
ScrapeClaudeFiles ==
  /\ applied = NotApplied
  /\ \E found \in SeqsUpTo(Filenames, MaxFilenames), p \in SomePrefs :
       LET a == Arguments(<<"fix my code">>, p, scrapeFilenames(found), <<>>) IN
       /\ applied' = Applied("scrapeClaudeFiles", found, a)
       /\ returned' =
            assemblePayload(a.rawPrompt, a.prefs, a.scrapedFilenames, a.embeddedFiles)
  /\ UNCHANGED <<callVars, bgVars, storeVars, popupVars, v1Vars, historyVars, sidePanel>>

\* A line of more characters than the first version embeds in full.
LongLine == "<a line of 50001 characters>"

\* String.prototype.length of a text.
RECURSIVE Length(_)
Length(text) ==
  IF text = <<>> THEN 0
  ELSE Length(Tail(text)) +
         (IF Head(text) = LongLine THEN 50001
          ELSE IF Head(text) \in {"\n"} \cup {ToString(i) : i \in 0..9} THEN 1
          ELSE 2)

\* file.name.split('.').pop()
LastSegment(name) ==
  CASE name = "main.py" -> "py"
    [] name = "Makefile" -> "Makefile"
    [] name = "notes." -> ""

\* The files the user may pick: their names and what they read as.
PickedFiles ==
  [name : {"main.py", "Makefile", "notes."},
   text : {Lines(1), Lines(51), Lines(75), <<LongLine>>}]

\* handleFileSelect: what reader.onload pushes to attachedFiles.
handleFileSelect(file) ==
  [name |-> file.name, content |-> file.text, ext |-> OrElse(LastSegment(file.name), "txt")]

\* handleOptimize: attachedFiles.map(f => ...)
embeddedFile(f) ==
  [name |-> f.name, ext |-> f.ext, text |-> f.content,
   truncated |-> Len(Split(f.content)) > PreviewLines]

\* The first version: more characters than this and a file is marked truncated.
TruncatedAbove == 50000

\* The change handler of the file input of the first version.
uploadedFile(file) ==
  [name |-> file.name, ext |-> OrElse(LastSegment(file.name), ""), text |-> file.text,
   truncated |-> Length(file.text) > TruncatedAbove]

\* The user picks files and handleOptimize of the popup, reaching its call
\* of assemblePayload, hands them over.
HandleOptimizeWithFiles ==
  /\ applied = NotApplied
  /\ \E files \in SeqsUpTo(PickedFiles, MaxFiles) :
       LET attachedFiles == [i \in DOMAIN files |-> handleFileSelect(files[i])]
           embeddedFiles == [i \in DOMAIN files |-> embeddedFile(attachedFiles[i])]
           a == Arguments(<<"fix my code">>, mergedPrefs(NoPrefs), <<>>, embeddedFiles)
       IN
       /\ applied' = Applied("handleOptimize", <<>>, a)
       /\ returned' =
            assemblePayload(a.rawPrompt, a.prefs, a.scrapedFilenames, a.embeddedFiles)
  /\ UNCHANGED <<callVars, bgVars, storeVars, popupVars, v1Vars, historyVars, sidePanel>>

\* The same in the popup of the first version.
ClickOptimizeWithFilesV1 ==
  /\ applied = NotApplied
  /\ \E files \in SeqsUpTo(PickedFiles, MaxFiles) :
       LET uploadedFiles == [i \in DOMAIN files |-> uploadedFile(files[i])]
           a == Arguments(<<"fix my code">>, NoPrefsV1, <<>>, uploadedFiles)
       IN
       /\ applied' = Applied("optimizeBtn click", <<>>, a)
       /\ returned' =
            assemblePayloadV1(a.rawPrompt, a.prefs, a.scrapedFilenames, a.embeddedFiles)
  /\ UNCHANGED <<callVars, bgVars, storeVars, popupVars, v1Vars, historyVars, sidePanel>>

NextAssemble ==
  \/ AssemblePayload \/ AssemblePayloadV1 \/ ScrapeClaudeFiles
  \/ HandleOptimizeWithFiles \/ ClickOptimizeWithFilesV1

SpecAssemble == Init /\ [][NextAssemble]_vars

-----------------------------------------------------------------------------
(* testProvider and the Test buttons of the options page                   *)

testPrompt == <<"Reply with exactly: \"Connection successful\"">>

\* config of testApiKey: the fields of the form, the URL never absent.
TestConfigs ==
  [apiKey : {Undefined, "", "AIza-key"}, openaiKey : {"", "sk-key"},
   ollamaUrl : {DefaultOllamaUrl, "http://192.168.1.5:11434"}]

\* testProvider up to its first await: the switch on provider.
testProviderStart(provider, config) ==
  CASE provider = "gemini" -> generateWithGeminiStart(testPrompt, config.apiKey)
    [] provider = "openai" -> generateWithOpenAIStart(testPrompt, config.openaiKey)
    [] provider = "ollama" -> generateWithOllamaStart(testPrompt, config.ollamaUrl)

\* testProvider returning success whatever the client did.
testProviderReturnSuccess(settled) == Value([success |-> TRUE])

\* What testProvider returns once the call of the client has settled.
testProviderReturn(settled) ==
  IF settled.ok THEN Value([success |-> TRUE])
  ELSE Value([success |-> FALSE, error |-> settled.message])

\* A Test button is clicked: testApiKey calls testProvider, which runs up to
\* the await of fetch, or to its return when the client throws at once.
TestProvider ==
  /\ callPc = "idle" /\ applied = NotApplied
  /\ \E provider \in DOMAIN PROVIDERS, config \in TestConfigs :
       LET start == testProviderStart(provider, config) IN
       /\ callConfig' = [provider |-> provider, apiKey |-> config.apiKey,
                         openaiKey |-> config.openaiKey, ollamaUrl |-> config.ollamaUrl]
       /\ requests' = start.fetches
       /\ result' = start.result
       /\ net' = NoAnswer
       /\ callPc' = IF start.threw THEN "done" ELSE "awaitFetch"
       /\ applied' = [fn |-> "testProvider", provider |-> provider, config |-> config,
                      returned |-> start.threw]
       /\ returned' = IF start.threw THEN testProviderReturn(start.result) ELSE returned
  /\ UNCHANGED <<bgVars, storeVars, popupVars, v1Vars, historyVars, sidePanel>>

\* fetch settles: the client settles and testProvider returns.
TestProviderSettles ==
  /\ callPc = "awaitFetch" /\ applied.fn = "testProvider"
  /\ \E ans \in Rejections \cup Responses(Awaiting, MaxRelayedTextLen) :
       LET settled == generateWithProviderSettle(Awaiting, callConfig, ans) IN
       /\ net' = ans
       /\ result' = settled
       /\ returned' = testProviderReturn(settled)
  /\ callPc' = "done"
  /\ applied' = [applied EXCEPT !.returned = TRUE]
  /\ UNCHANGED <<callConfig, requests, bgVars, storeVars, popupVars, v1Vars, historyVars, sidePanel>>

NextTest == SavePreferences \/ TestProvider \/ TestProviderSettles

SpecTest == Init /\ [][NextTest]_vars

-----------------------------------------------------------------------------
(* utils/tokenCounter.js                                                   *)

\* The characters \s matches, of those that occur here.
WhitespaceChars == {" ", "\n", "\t"}

\* The characters of the class of specialChars.
SpecialChars ==
  {"{", "}", "(", ")", "[", "]", "<", ">", ":", ";", ",", ".", "\"", "'", "<backquote>",
   "~", "!", "@", "#", "$", "%", "^", "&", "*", "+", "=", "|", "\\", "/", "?", "-"}

\* text.split(/\s+/): the pieces between the runs of white space, the empty
\* pieces before a leading run and after a trailing one included.
RECURSIVE SplitWhitespace(_)
SplitWhitespace(text) ==
  LET spaces == {i \in DOMAIN text : text[i] \in WhitespaceChars} IN
  IF spaces = {} THEN <<text>>
  ELSE LET first == CHOOSE i \in spaces : \A j \in spaces : i <= j
           after == {i \in (first + 1)..Len(text) : text[i] \notin WhitespaceChars}
           next == IF after = {} THEN Len(text) + 1
                   ELSE CHOOSE i \in after : \A j \in after : i <= j
       IN  <<SubSeq(text, 1, first - 1)>> \o SplitWhitespace(SubSeq(text, next, Len(text)))

\* The tokens of a word with the second bucket ending below 8.
wordTokensStrict(length) ==
  IF length <= 4 THEN 1
  ELSE IF length < 8 THEN 2
  ELSE IF length <= 12 THEN 3
  ELSE (length + 3) \div 4

\* The body of the loop over the words: the tokens of a word of this length.
wordTokens(length) ==
  IF length <= 4 THEN 1
  ELSE IF length <= 8 THEN 2
  ELSE IF length <= 12 THEN 3
  ELSE (length + 3) \div 4

RECURSIVE sumWordTokens(_)
sumWordTokens(words) ==
  IF words = <<>> THEN 0
  ELSE wordTokens(Len(Head(words))) + sumWordTokens(Tail(words))

\* estimateTokens(text)
estimateTokens(text) ==
  IF text = Undefined \/ text = <<>> THEN 0
  ELSE LET words == SelectSeq(SplitWhitespace(text), LAMBDA w : Len(w) > 0)
           specialChars == {i \in DOMAIN text : text[i] \in SpecialChars}
           newlines == {i \in DOMAIN text : text[i] = "\n"}
           tokens == sumWordTokens(words) + (Cardinality(specialChars) + 1) \div 2
                       + Cardinality(newlines)
       IN  IF tokens < 1 THEN 1 ELSE tokens

\* Longest text of the estimator, in runs of one character.
MaxRuns == 3

\* A run: a character and how often it is repeated.
Runs ==
  [ch : {"a"}, n : {1, 4, 5, 8, 9, 12, 13, 16, 17}] \cup [ch : {"."}, n : 1..3]
    \cup [ch : {" ", "\n"}, n : 1..2] \cup [ch : {"\t"}, n : {1}]

RECURSIVE Expand(_)
Expand(runs) ==
  IF runs = <<>> THEN <<>>
  ELSE [i \in 1..Head(runs).n |-> Head(runs).ch] \o Expand(Tail(runs))

\* The strings estimateTokens is applied to.
EstimatorTexts == {Expand(runs) : runs \in SeqsUpTo(Runs, MaxRuns)}

\* estimateTokens is applied to a text.
EstimateTokens ==
  /\ applied = NotApplied
  /\ \E text \in EstimatorTexts :
       /\ applied' = [fn |-> "estimateTokens", text |-> text]
       /\ returned' = Value(estimateTokens(text))
  /\ UNCHANGED <<callVars, bgVars, storeVars, popupVars, v1Vars, historyVars, sidePanel>>

\* estimateTokens is applied to no text.
EstimateTokensOfNothing ==
  /\ applied = NotApplied
  /\ applied' = [fn |-> "estimateTokens", text |-> Undefined]
  /\ returned' = Value(estimateTokens(Undefined))
  /\ UNCHANGED <<callVars, bgVars, storeVars, popupVars, v1Vars, historyVars, sidePanel>>

\* Largest token count handed to calculateSavings.
MaxTokens == 12

\* Math.round(n / d * 100) for d > 0: the nearest integer; where the
\* quotient lies halfway between two integers the double that is rounded may
\* fall on either side of the half (23 / 40 * 100 is 57.49999999999999), so
\* Math.round may give either neighbour.
MathRoundPercent(n, d) ==
  LET down == (100 * n) \div d
      twice == 2 * (100 * n - down * d)
  IN  IF twice < d THEN {down} ELSE IF twice > d THEN {down + 1} ELSE {down, down + 1}

\* calculateSavings with the percentage cut off below.
calculateSavingsTruncating(original, optimized) ==
  LET diff == original - optimized IN
  {[saved |-> diff, percentage |-> IF original > 0 THEN (100 * diff) \div original ELSE 0,
    isReduction |-> diff > 0]}

\* calculateSavings(original, optimized): what it may return.
calculateSavings(original, optimized) ==
  LET diff == original - optimized IN
  {[saved |-> diff, percentage |-> percentage, isReduction |-> diff > 0] :
     percentage \in IF original > 0 THEN MathRoundPercent(diff, original) ELSE {0}}

\* calculateSavings is applied to two token counts.
CalculateSavings ==
  /\ applied = NotApplied
  /\ \E original, optimized \in 0..MaxTokens \cup {40, 50, 60, 100} :
       \E savings \in calculateSavings(original, optimized) :
         /\ applied' = [fn |-> "calculateSavings", original |-> original,
                        optimized |-> optimized]
         /\ returned' = Value(savings)
  /\ UNCHANGED <<callVars, bgVars, storeVars, popupVars, v1Vars, historyVars, sidePanel>>

NextTokens == EstimateTokens \/ EstimateTokensOfNothing \/ CalculateSavings

SpecTokens == Init /\ [][NextTokens]_vars

-----------------------------------------------------------------------------
(* utils/diffView.js                                                       *)

\* Longest text handed to the diff functions, in characters.
MaxDiffLen == 3

\* tokenize(text): the pieces between the runs of white space that are not
\* blank.
tokenize(text) == SelectSeq(SplitWhitespace(text), LAMBDA w : Len(w) > 0)

\* The lowercase forms of a list of words, as a set.
LowerSet(words) ==
  {[i \in DOMAIN words[k] |-> ToLowerCase(words[k][i])] : k \in DOMAIN words}

\* escapeHtml(text): the innerHTML of an element with this textContent.
escapeHtml(text) ==
  [i \in DOMAIN text |->
     CASE text[i] = "<" -> "&lt;"
       [] text[i] = ">" -> "&gt;"
       [] text[i] = "&" -> "&amp;"
       [] OTHER -> text[i]]

\* The words of the optimized text counted as added, compared as written.
addedWordsExact(optimizedWords, originalSet) ==
  {k \in DOMAIN optimizedWords : optimizedWords[k] \notin originalSet}

\* The words of the optimized text the second map counts as added.
addedWords(optimizedWords, originalSet) ==
  {k \in DOMAIN optimizedWords : LowerSet(<<optimizedWords[k]>>) \cap originalSet = {}}

\* The words of the original text the first map counts as removed.
removedWords(originalWords, optimizedSet) ==
  {k \in DOMAIN originalWords : LowerSet(<<originalWords[k]>>) \cap optimizedSet = {}}

\* createDiff(original, optimized)
createDiff(original, optimized) ==
  LET originalWords == tokenize(original)
      optimizedWords == tokenize(optimized)
      removed == removedWords(originalWords, LowerSet(optimizedWords))
      added == addedWords(optimizedWords, LowerSet(originalWords))
      Html(words, marked, class) ==
        Join([k \in DOMAIN words |->
                IF k \in marked
                  THEN <<"<span class=\"" \o class \o "\">">> \o escapeHtml(words[k])
                         \o <<"</span>">>
                  ELSE escapeHtml(words[k])], <<" ">>)
  IN  [originalHtml |-> Html(originalWords, removed, "diff-removed"),
       optimizedHtml |-> Html(optimizedWords, added, "diff-added"),
       stats |-> [added |-> Cardinality(added),
                  removed |-> Cardinality(removed),
                  unchanged |-> Len(originalWords) - Cardinality(removed),
                  originalWords |-> Len(originalWords),
                  optimizedWords |-> Len(optimizedWords)]]

\* Array index with the default of the loop: lines[i] || ''.
LineAt(lines, i) == IF i \in DOMAIN lines THEN lines[i] ELSE <<>>

\* createUnifiedDiff(original, optimized)
createUnifiedDiff(original, optimized) ==
  LET originalLines == Split(original)
      optimizedLines == Split(optimized)
      maxLines == IF Len(originalLines) > Len(optimizedLines)
                    THEN Len(originalLines) ELSE Len(optimizedLines)
      Div(class, sign, html) ==
        <<"<div class=\"diff-line " \o class \o "\">" \o sign>> \o html \o <<"</div>">>
      Has(lines, line) == \E j \in DOMAIN lines : lines[j] = line
      Pushed(i) ==
        LET origLine == LineAt(originalLines, i)
            optLine == LineAt(optimizedLines, i)
        IN  IF origLine = optLine
              THEN Div("diff-unchanged", "",
                       IF origLine = <<>> THEN <<"&nbsp;">> ELSE escapeHtml(origLine))
              ELSE (IF origLine # <<>> /\ ~Has(optimizedLines, origLine)
                      THEN Div("diff-removed", "- ", escapeHtml(origLine)) ELSE <<>>)
                   \o (IF optLine # <<>> /\ ~Has(originalLines, optLine)
                         THEN Div("diff-added", "+ ", escapeHtml(optLine)) ELSE <<>>)
  IN  Join([i \in 1..maxLines |-> Pushed(i)], <<>>)

\* calculateSimilarity without its two early returns.
calculateSimilarityUnguarded(original, optimized) ==
  LET originalWords == LowerSet(tokenize(original))
      optimizedWords == LowerSet(tokenize(optimized))
      union == originalWords \cup optimizedWords
  IN  IF union = {} THEN {0}
      ELSE MathRoundPercent(Cardinality(originalWords \cap optimizedWords), Cardinality(union))

\* calculateSimilarity(original, optimized): the numbers Math.round may give.
calculateSimilarity(original, optimized) ==
  LET originalWords == LowerSet(tokenize(original))
      optimizedWords == LowerSet(tokenize(optimized))
      matches == Cardinality({word \in originalWords : word \in optimizedWords})
      union == originalWords \cup optimizedWords
  IN  IF originalWords = {} /\ optimizedWords = {} THEN {100}
      ELSE IF originalWords = {} \/ optimizedWords = {} THEN {0}
      ELSE MathRoundPercent(matches, Cardinality(union))

\* updateCompareView applies createDiff to the last pair of prompts, both of
\* them non-empty.
CreateDiff ==
  /\ applied = NotApplied
  /\ \E original, optimized \in SeqsUpTo({"a", "A", " "}, MaxDiffLen) \ {<<>>} :
       /\ applied' = [fn |-> "createDiff", original |-> original, optimized |-> optimized]
       /\ returned' = Value(createDiff(original, optimized))
  /\ UNCHANGED <<callVars, bgVars, storeVars, popupVars, v1Vars, historyVars, sidePanel>>

\* createUnifiedDiff is applied to two texts.
CreateUnifiedDiff ==
  /\ applied = NotApplied
  /\ \E original, optimized \in SeqsUpTo({"a", "<", "\n"}, MaxDiffLen) :
       /\ applied' = [fn |-> "createUnifiedDiff", original |-> original,
                      optimized |-> optimized]
       /\ returned' = Value(createUnifiedDiff(original, optimized))
  /\ UNCHANGED <<callVars, bgVars, storeVars, popupVars, v1Vars, historyVars, sidePanel>>

\* calculateSimilarity is applied to two texts.
CalculateSimilarity ==
  /\ applied = NotApplied
  /\ \E original, optimized \in SeqsUpTo({"a", "A", "b", " "}, MaxDiffLen) :
       \E similarity \in calculateSimilarity(original, optimized) :
         /\ applied' = [fn |-> "calculateSimilarity", original |-> original,
                        optimized |-> optimized]
         /\ returned' = Value(similarity)
  /\ UNCHANGED <<callVars, bgVars, storeVars, popupVars, v1Vars, historyVars, sidePanel>>

NextDiff == CreateDiff \/ CreateUnifiedDiff \/ CalculateSimilarity

SpecDiff == Init /\ [][NextDiff]_vars

-----------------------------------------------------------------------------

(* utils/storage.js: the history                                           *)

\* How many deletions, clearings and failed writes one run holds.
MaxInterruptions == 2

\* The saveToHistory calls of a run of calls made one after another: enough
\* to fill the history and go beyond.
MaxSaves == MAX_HISTORY_ITEMS + MaxCalls

\* Deletions, clearings and failed writes are explored near the empty
\* history and at the full one.
Interruptible ==
  /\ interruptions < MaxInterruptions
  /\ saved <= MaxCalls \/ saved >= MAX_HISTORY_ITEMS

\* Another page has a history call in progress.
Overlapping(p) == \E q \in HistoryPages \ {p} : historyCalls[q].pc # "idle"

\* history.filter(item => item.id !== id)
Filter(history, id) == SelectSeq(history, LAMBDA item : item.id # id)

\* A page calls saveToHistory(original, optimized), which awaits getHistory.
SaveToHistory(p, limit) ==
  /\ historyCalls[p].pc = "idle" /\ saved < limit
  /\ saved' = saved + 1
  /\ historyCalls' = [historyCalls EXCEPT ![p] =
       [pc |-> "getHistory", fn |-> "saveToHistory",
        original |-> <<saved + 1>>, optimized |-> <<"optimized", saved + 1>>]]
  /\ UNCHANGED <<now, interruptions, keptEntries, latest, promptHistory>>
  /\ UNCHANGED <<callVars, bgVars, storeVars, v1Vars, fnVars, sidePanel, rawPromptValue,
                 optimizedPromptValue, optimizeBtnDisabled, autoOptimizeChecked,
                 autoOptimizeTimeout, lastOriginalPrompt, lastOptimizedPrompt, calls, nextCall>>

\* The popup's history list calls deleteHistoryItem(id) with the id of an
\* entry it shows, or of one that is gone; getHistory is awaited.
DeleteHistoryItem(p) ==
  /\ p = "popup" /\ historyCalls[p].pc = "idle" /\ Interruptible
  /\ \E id \in {promptHistory[i].id : i \in {1, 2, Len(promptHistory)} \cap DOMAIN promptHistory}
                 \cup {ToString(0)} :
       historyCalls' = [historyCalls EXCEPT ![p] =
         [pc |-> "getHistory", fn |-> "deleteHistoryItem", id |-> id]]
  /\ interruptions' = interruptions + 1
  /\ UNCHANGED <<now, saved, keptEntries, latest, promptHistory>>
  /\ UNCHANGED <<callVars, bgVars, storeVars, v1Vars, fnVars, sidePanel, rawPromptValue,
                 optimizedPromptValue, optimizeBtnDisabled, autoOptimizeChecked,
                 autoOptimizeTimeout, lastOriginalPrompt, lastOptimizedPrompt, calls, nextCall>>

\* The popup calls clearHistory(), which hands the empty list to
\* chrome.storage.local.set.
ClearHistory(p) ==
  /\ p = "popup" /\ historyCalls[p].pc = "idle" /\ Interruptible
  /\ historyCalls' = [historyCalls EXCEPT ![p] =
       [pc |-> "set", fn |-> "clearHistory", history |-> <<>>]]
  /\ interruptions' = interruptions + 1
  /\ UNCHANGED <<now, saved, keptEntries, latest, promptHistory>>
  /\ UNCHANGED <<callVars, bgVars, storeVars, v1Vars, fnVars, sidePanel, rawPromptValue,
                 optimizedPromptValue, optimizeBtnDisabled, autoOptimizeChecked,
                 autoOptimizeTimeout, lastOriginalPrompt, lastOptimizedPrompt, calls, nextCall>>

\* getHistory resolves with the stored list. saveToHistory reads the clock,
\* puts its entry in front and drops the last one beyond MAX_HISTORY_ITEMS;
\* deleteHistoryItem filters the list; the list is handed to
\* chrome.storage.local.set. Calls made one after another are a millisecond
\* or more apart; of two overlapping calls the second may read the clock of
\* the first.
GetHistoryResolvesFor(p) ==
  /\ historyCalls[p].pc = "getHistory"
  /\ IF historyCalls[p].fn = "saveToHistory"
     THEN \E elapsed \in IF Overlapping(p) THEN {0, 1} ELSE {1} :
            LET entry == [id |-> ToString(now + elapsed), timestamp |-> now + elapsed,
                          original |-> historyCalls[p].original,
                          optimized |-> historyCalls[p].optimized]
            IN  /\ now' = now + elapsed
                /\ historyCalls' = [historyCalls EXCEPT ![p] =
                     [pc |-> "set", fn |-> "saveToHistory", entry |-> entry,
                      history |-> Unshift(promptHistory, entry),
                      popped |-> {promptHistory[i] : i \in DOMAIN promptHistory}
                                   \ {Unshift(promptHistory, entry)[i] :
                                         i \in DOMAIN Unshift(promptHistory, entry)}]]
     ELSE /\ now' = now
          /\ historyCalls' = [historyCalls EXCEPT ![p] =
               [pc |-> "set", fn |-> "deleteHistoryItem", id |-> historyCalls[p].id,
                history |-> Filter(promptHistory, historyCalls[p].id)]]
  /\ UNCHANGED <<saved, interruptions, keptEntries, latest, promptHistory>>
  /\ UNCHANGED <<callVars, bgVars, storeVars, v1Vars, fnVars, sidePanel, rawPromptValue,
                 optimizedPromptValue, optimizeBtnDisabled, autoOptimizeChecked,
                 autoOptimizeTimeout, lastOriginalPrompt, lastOptimizedPrompt, calls, nextCall>>

\* chrome.storage.local.set calls back: with chrome.runtime.lastError the
\* call rejects and the store keeps its list, otherwise the list of the call
\* is the stored one and the call resolves.
HistorySetCallsBack(p) ==
  /\ historyCalls[p].pc = "set"
  /\ \E lastError \in IF Interruptible THEN BOOLEAN ELSE {FALSE} :
       LET call == historyCalls[p] IN
       IF lastError
       THEN /\ interruptions' = interruptions + 1
            /\ UNCHANGED <<promptHistory, keptEntries, latest>>
       ELSE /\ promptHistory' = call.history
            /\ interruptions' = interruptions
            /\ keptEntries' =
                 CASE call.fn = "saveToHistory" ->
                        (keptEntries \cup {call.entry}) \ call.popped
                   [] call.fn = "deleteHistoryItem" -> {e \in keptEntries : e.id # call.id}
                   [] call.fn = "clearHistory" -> {}
            /\ latest' =
                 CASE call.fn = "saveToHistory" -> call.entry
                   [] call.fn = "deleteHistoryItem" ->
                        IF latest.id = call.id THEN NoEntry ELSE latest
                   [] call.fn = "clearHistory" -> NoEntry
  /\ historyCalls' = [historyCalls EXCEPT ![p] = NoHistoryCall]
  /\ UNCHANGED <<now, saved>>
  /\ UNCHANGED <<callVars, bgVars, storeVars, v1Vars, fnVars, sidePanel, rawPromptValue,
                 optimizedPromptValue, optimizeBtnDisabled, autoOptimizeChecked,
                 autoOptimizeTimeout, lastOriginalPrompt, lastOptimizedPrompt, calls, nextCall>>

\* The popup makes its history calls one after another.
NextHistory ==
  \/ SaveToHistory("popup", MaxSaves) \/ DeleteHistoryItem("popup") \/ ClearHistory("popup")
  \/ GetHistoryResolvesFor("popup") \/ HistorySetCallsBack("popup")

SpecHistory == Init /\ [][NextHistory]_vars

\* The popup and the side panel make history calls that may overlap.
NextHistoryOverlap ==
  \E p \in HistoryPages :
    \/ SaveToHistory(p, MaxCalls + 1) \/ DeleteHistoryItem(p) \/ ClearHistory(p)
    \/ GetHistoryResolvesFor(p) \/ HistorySetCallsBack(p)

SpecHistoryOverlap == Init /\ [][NextHistoryOverlap]_vars

-----------------------------------------------------------------------------

(* The side panel                                                          *)

\* The delay of the auto-optimize timer, in milliseconds.
Debounce == 1500

\* The time that passes in one step.
TickLength == Debounce \div 3

\* How many timers a run sets.
MaxTimers == 3

\* handleOptimize of the side panel up to its first await: with a prompt it
\* shows the loading state and awaits loadPreferences.
SidePanelHandleOptimize(panel) ==
  LET prompt == Trim(panel.rawPrompt) IN
  IF prompt = <<>> THEN panel
  ELSE [panel EXCEPT !.optimizeBtnDisabled = TRUE,
                     !.inProgress = Append(@, prompt),
                     !.begun = @ + 1]

\* The input listener of the side panel: with the box checked it clears the
\* timer autoOptimizeTimeout names and sets a new one.
SidePanelInput(panel, value) ==
  IF panel.autoOptimize
  THEN [panel EXCEPT !.rawPrompt = value, !.sinceInput = 0,
                     !.timers = {t \in @ : t.id # panel.autoOptimizeTimeout}
                                  \cup {[id |-> panel.timersSet + 1, due |-> Debounce]},
                     !.autoOptimizeTimeout = panel.timersSet + 1,
                     !.timersSet = @ + 1]
  ELSE [panel EXCEPT !.rawPrompt = value, !.sinceInput = 0]

\* The user types in the side panel.
InputInSidePanel ==
  /\ sidePanel.timersSet < MaxTimers
  /\ \E value \in PromptValues :
       /\ value # sidePanel.rawPrompt
       /\ sidePanel' = SidePanelInput(sidePanel, value)
  /\ UNCHANGED <<callVars, bgVars, storeVars, popupVars, v1Vars, fnVars, historyVars>>

\* The user checks or unchecks the auto-optimize box of the side panel, which
\* has no change listener.
ToggleAutoOptimizeInSidePanel ==
  /\ sidePanel' = [sidePanel EXCEPT !.autoOptimize = ~@]
  /\ UNCHANGED <<callVars, bgVars, storeVars, popupVars, v1Vars, fnVars, historyVars>>

\* Time passes while no timer is due.
TimePasses ==
  /\ sidePanel.timers # {} \/ sidePanel.sinceInput < Debounce
  /\ \A t \in sidePanel.timers : t.due > 0
  /\ sidePanel' =
       [sidePanel EXCEPT
          !.timers = {[t EXCEPT !.due = @ - TickLength] : t \in @},
          !.sinceInput = IF @ + TickLength > Debounce THEN Debounce ELSE @ + TickLength]
  /\ UNCHANGED <<callVars, bgVars, storeVars, popupVars, v1Vars, fnVars, historyVars>>

\* A timer of the side panel is due: it calls handleOptimize.
TimerFiresInSidePanel ==
  /\ sidePanel.begun < MaxCalls
  /\ \E t \in sidePanel.timers :
       /\ t.due <= 0
       /\ sidePanel' = SidePanelHandleOptimize(
            [sidePanel EXCEPT !.timers = @ \ {t}, !.autoTriggered = @ + 1])
  /\ UNCHANGED <<callVars, bgVars, storeVars, popupVars, v1Vars, fnVars, historyVars>>

\* A click on the optimize button of the side panel, which a disabled button
\* does not deliver.
ClickOptimizeInSidePanel ==
  /\ sidePanel.begun < MaxCalls
  /\ ~sidePanel.optimizeBtnDisabled
  /\ sidePanel' = SidePanelHandleOptimize(sidePanel)
  /\ UNCHANGED <<callVars, bgVars, storeVars, popupVars, v1Vars, fnVars, historyVars>>

\* A call of handleOptimize in the side panel runs from loadPreferences to
\* its end: the key is missing or the provider call or saveToHistory fails
\* and the status shows it, or the entry is saved and the result shown;
\* `finally` ends the loading state.
HandleOptimizeEndsInSidePanel ==
  \E i \in DOMAIN sidePanel.inProgress, outcome \in {"failed", "succeeded"} :
    LET prompt == sidePanel.inProgress[i]
        optimized == <<"optimized">> \o prompt
        entry == [id |-> ToString(now + 1), timestamp |-> now + 1,
                  original |-> prompt, optimized |-> optimized]
        rest == [j \in 1..(Len(sidePanel.inProgress) - 1) |->
                   sidePanel.inProgress[IF j < i THEN j ELSE j + 1]]
    IN  /\ sidePanel' =
             [sidePanel EXCEPT !.inProgress = rest, !.optimizeBtnDisabled = FALSE,
                               !.optimizedPrompt =
                                  IF outcome = "succeeded" THEN optimized ELSE @]
        /\ IF outcome = "succeeded"
           THEN /\ promptHistory' = Unshift(promptHistory, entry)
                /\ now' = now + 1
           ELSE UNCHANGED <<promptHistory, now>>
        /\ UNCHANGED <<historyCalls, saved, interruptions, keptEntries, latest>>
        /\ UNCHANGED <<callVars, bgVars, storeVars, v1Vars, fnVars, rawPromptValue,
                       optimizedPromptValue, optimizeBtnDisabled, autoOptimizeChecked,
                       autoOptimizeTimeout, lastOriginalPrompt, lastOptimizedPrompt,
                       calls, nextCall>>

NextSidePanel ==
  \/ InputInSidePanel \/ ToggleAutoOptimizeInSidePanel \/ TimePasses
  \/ TimerFiresInSidePanel \/ ClickOptimizeInSidePanel \/ HandleOptimizeEndsInSidePanel

SpecSidePanel == Init /\ [][NextSidePanel]_vars

-----------------------------------------------------------------------------

(* Properties of generateWithProvider                                      *)

\* The key that config.provider requires.
MatchingKey(config) ==
  IF config.provider = "gemini" THEN config.apiKey ELSE config.openaiKey

\* The call has settled on an HTTP response with a non-success status.
SettledOnErrorStatus ==
  callPc = "done" /\ net.type = "response" /\ ~ResponseOk(net.status)

\* C1: a call for gemini or openai whose matching key is empty or absent has
\* failed with the missing-credential error as soon as it has begun, and no
\* fetch is issued at any point of it.
C1_MissingKeyFailsBeforeFetch ==
  (callPc # "idle" /\ callConfig.provider \in {"gemini", "openai"}
     /\ Falsy(MatchingKey(callConfig)))
  => /\ callPc = "done"
     /\ ~result.ok
     /\ KindOf(result.message) = "MissingCredential"
     /\ requests = <<>>

C1_Witness ==
  /\ callPc = "done" /\ callConfig.provider = "openai" /\ callConfig.openaiKey = Undefined
  /\ callConfig.apiKey = "AIza-key"
  /\ result = Thrown(<<"OpenAI API key is required">>) /\ requests = <<>>

\* The kind the status table of the specification gives (provider, status),
\* "" where the table has no row.
TableKind(provider, status) ==
  CASE status = 400 -> "BadRequest"
    [] status \in {401, 403} -> "InvalidCredential"
    [] status = 429 -> "RateLimited"
    [] status >= 500 /\ status <= 599 -> "ProviderUnavailable"
    [] status = 402 /\ provider = "openai" -> "QuotaExceeded"
    [] status = 404 /\ provider = "ollama" -> "ModelNotFound"
    [] OTHER -> ""

ClientHasRow(provider, status) ==
  CASE provider = "gemini" -> status \in {400, 401, 403, 429} \/ status >= 500
    [] provider = "openai" -> status \in {401, 402, 429}
    [] OTHER -> status = 404

\* The message of a status outside the rows of the client: the provider's raw
\* text (gemini, openai) or the bare status.
FallbackMessage(provider, status, raw) ==
  IF provider # "ollama" /\ raw # "" THEN <<raw>>
  ELSE << CASE provider = "gemini" -> "API error: "
            [] provider = "openai" -> "OpenAI error: "
            [] OTHER -> "Ollama error: ",
          ToString(status) >>

C3_RejectionIsNetworkError ==
  (callPc = "done" /\ net.type = "reject")
  => ~result.ok /\ KindOf(result.message) = "NetworkError"
     /\ result.message # <<net.message>>

\* The text the client of the call in flight extracts from a 2xx body.
ExtractedText ==
  IF callConfig.provider = "gemini" THEN GeminiText(net.data) ELSE net.data.text

\* The call has settled on a 2xx response that parses and was not blocked.
SettledOnBody ==
  /\ callPc = "done" /\ net.type = "response" /\ ResponseOk(net.status)
  /\ net.data.jsonOk /\ net.data.blockReason = ""

\* C4: a 2xx response whose text field is absent or empty fails with
\* EmptyResponse, and no call resolves with the empty string.
C4_EmptyTextIsEmptyResponse ==
  /\ (SettledOnBody /\ ExtractedText = <<>>)
       => ~result.ok /\ KindOf(result.message) = "EmptyResponse"
  /\ (callPc = "done" /\ result.ok) => result.text # <<>>

\* C5: the error the background handleOptimize returns is the error of
\* generateWithProvider, message and kind unchanged.
C5_ErrorPassedThrough ==
  (bgPc = "responded" /\ callPc = "done" /\ ~result.ok)
  => ~bgResponse.ok /\ bgResponse.error = result.message

\* The place of a token among the prefix patterns, 0 for a token that is no
\* boilerplate phrase.
PatternIndex(tok) ==
  IF \E i \in DOMAIN Prefixes : ToLowerCase(Prefixes[i]) = ToLowerCase(tok)
  THEN CHOOSE i \in DOMAIN Prefixes : ToLowerCase(Prefixes[i]) = ToLowerCase(tok)
  ELSE 0

\* What normalization took off the front of the extracted text.
Removed ==
  LET trimmed == Trim(ExtractedText)
  IN  SubSeq(trimmed, 1, Len(trimmed) - Len(result.text))

\* The patterns whose phrase was taken off, in the order of the text.
RECURSIVE PhraseIndices(_)
PhraseIndices(t) ==
  IF t = <<>> THEN <<>>
  ELSE IF PatternIndex(Head(t)) > 0
  THEN <<PatternIndex(Head(t))>> \o PhraseIndices(Tail(t))
  ELSE PhraseIndices(Tail(t))

LastOrZero(s) == IF s = <<>> THEN 0 ELSE s[Len(s)]

Normalized == SettledOnBody /\ result.ok

\* C6 as claimed: at most one boilerplate prefix is taken off a response.
C6_AtMostOnePrefix ==
  Normalized => Len(PhraseIndices(Removed)) <= 1

\* C6 (amended): normalization makes one pass over the patterns in their fixed
\* order, each applied to what the earlier ones left, so it takes off one
\* prefix per matching pattern: what is removed is a run of boilerplate
\* phrases in strictly increasing pattern order (each with its colon and
\* whitespace), and what remains starts with no phrase of a later pattern.
C6_OnePassInPatternOrder ==
  Normalized =>
    LET trimmed == Trim(ExtractedText)
        kept    == result.text
        gone    == PhraseIndices(Removed)
    IN  /\ Len(kept) <= Len(trimmed)
        /\ kept = SubSeq(trimmed, Len(trimmed) - Len(kept) + 1, Len(trimmed))
        /\ \A i \in DOMAIN Removed :
             PatternIndex(Removed[i]) > 0 \/ Removed[i] \in Whitespace \cup {":"}
        /\ Removed # <<>> => PatternIndex(Removed[1]) > 0
        /\ \A i \in 1..(Len(gone) - 1) : gone[i] < gone[i + 1]
        /\ kept # <<>> =>
             /\ PatternIndex(kept[1]) <= LastOrZero(gone)
             /\ kept[1] \notin Whitespace
             /\ kept[Len(kept)] \notin Whitespace

C6_Witness ==
  /\ Normalized /\ callConfig.provider = "openai"
  /\ net.data.text = <<"Here's the optimized prompt", "OPTIMIZED PROMPT", "fix my code">>
  /\ result.text = <<"fix my code">>

\* C10: a call issues at most one request, addressed to the provider that
\* config.provider names; a call that has failed has issued no second one.
C10_AtMostOneRequest ==
  /\ Len(requests) <= 1
  /\ \A i \in DOMAIN requests : requests[i].to = callConfig.provider
  /\ (callPc = "done" /\ ~result.ok /\ net.type # "none") => Len(requests) = 1

C10_Witness ==
  /\ callPc = "done" /\ ~result.ok /\ callConfig.provider = "ollama"
  /\ net.type = "response" /\ net.status = 500 /\ Len(requests) = 1

-----------------------------------------------------------------------------
(* Properties of the popup                                                 *)

\* Call c returns in this step because the credential is missing or the
\* dispatcher failed.
Fails(c) ==
  Active(c) /\ calls'[c].pc = "finished" /\ calls'[c].outcome = "failed"

\* C7: when a handleOptimize call of the popup fails on a missing credential
\* or on a dispatcher error, with no other call in progress during it, the
\* history and the remembered original and optimized prompts are what they
\* were when the call started.
C7_FailureLeavesNoTrace ==
  [][\A c \in CallIds :
       (Fails(c) /\ calls[c].alone)
         => /\ promptHistory' = calls[c].before.history
            /\ lastOriginalPrompt' = calls[c].before.original
            /\ lastOptimizedPrompt' = calls[c].before.optimized]_vars

AllReturned == \A c \in CallIds : ~Active(c)

AllSucceeded ==
  /\ \E c \in CallIds : calls[c].pc = "finished"
  /\ \A c \in CallIds : calls[c].pc = "finished" => calls[c].outcome = "succeeded"

\* C8: once every handleOptimize call of the popup has returned, all of them
\* with success, the remembered original prompt, the remembered optimized
\* prompt and the displayed result are the prompt and the result of one and
\* the same call.
C8_RememberedOfOneRequest ==
  (AllReturned /\ AllSucceeded)
    => \E c \in CallIds :
         /\ calls[c].pc = "finished"
         /\ lastOriginalPrompt = calls[c].rawPrompt
         /\ lastOptimizedPrompt = calls[c].optimized
         /\ optimizedPromptValue = calls[c].optimized

-----------------------------------------------------------------------------
(* Properties of the first version                                         *)

\* C9: within one optimization call of the first version, the credential the
\* worker dispatches with, and checks for presence, is the one of the read of
\* the preference store from which the popup assembled the payload.
C9_SingleSnapshot ==
  /\ \A i \in DOMAIN v1Requests :
       v1Requests[i].url = <<API_ENDPOINT, "?key=", v1Prefs.apiKey>>
  /\ (v1Pc = "responded" /\ v1Requests = <<>>) => Falsy(v1Prefs.apiKey)

-----------------------------------------------------------------------------
(* Properties of assemblePayload                                           *)

IndexOf(seq, tok) ==
  IF \E i \in DOMAIN seq : seq[i] = tok
  THEN CHOOSE i \in DOMAIN seq : seq[i] = tok /\ \A j \in 1..(i - 1) : seq[j] # tok
  ELSE 0

Occurrences(seq, tok) == Cardinality({i \in DOMAIN seq : seq[i] = tok})

Range(seq) == {seq[i] : i \in DOMAIN seq}

Singletons(seq) == [i \in DOMAIN seq |-> <<seq[i]>>]

WasApplied == applied.fn # "none"
FirstVersion == applied.fn \in {"assemblePayloadV1", "optimizeBtn click"}

\* The tokens of seq after its token header, up to the first token of stops.
After(seq, header, stops) ==
  LET h == IndexOf(seq, header)
      ends == {i \in (h + 1)..Len(seq) : seq[i] \in stops}
      end == IF ends = {} THEN Len(seq) + 1
             ELSE CHOOSE i \in ends : \A j \in ends : i <= j
  IN  IF h = 0 THEN <<>> ELSE SubSeq(seq, h + 1, end - 1)

\* The filename section of the payload returned: what follows its header, up
\* to the note that closes the section or to the end of the line.
FilenameSection ==
  After(returned.value,
        IF FirstVersion THEN TemplateV1.FilenamesHeader ELSE Template.FilenamesHeader,
        {Template.FilenamesNote, "\n"})

\* C11 as stated: for every filename list passed to assemblePayload, each
\* distinct filename of the list appears exactly once in the filename
\* section of the payload.
C11_EachDistinctNameOnce ==
  WasApplied =>
    \A name \in Range(applied.scrapedFilenames) : Occurrences(FilenameSection, name) = 1

\* C11, amended: the list scrapeFilenames answers with holds each distinct
\* name found on the page exactly once (exact, case-sensitive equality), in
\* the order first found, and assemblePayload lists the names it is given
\* verbatim, joined by ", ": a name found twice on the page appears once in
\* the payload.
C11_ScrapedNamesOnceListVerbatim ==
  /\ WasApplied =>
       /\ ~returned.threw
       /\ FilenameSection = Join(Singletons(applied.scrapedFilenames), <<", ">>)
  /\ applied.fn = "scrapeClaudeFiles" =>
       /\ Range(applied.scrapedFilenames) = Range(applied.found)
       /\ \A name \in Range(applied.found) : Occurrences(FilenameSection, name) = 1

\* a.py is found twice on the page and listed once.
C11_Witness ==
  /\ applied.fn = "scrapeClaudeFiles"
  /\ applied.found = <<"a.py", "a.py", "b.js">>
  /\ FilenameSection = <<"a.py", ", ", "b.js">>

\* The position of the n-th token tok of seq.
NthIndex(seq, tok, n) ==
  LET at == {i \in DOMAIN seq : seq[i] = tok} IN
  CHOOSE i \in at : Cardinality({j \in at : j <= i}) = n

\* What the payload returned holds for the i-th context file: the lines
\* between the line that opens its code block and the line that closes it.
FileBody(i) ==
  SubSeq(returned.value, NthIndex(returned.value, Fence, 2 * i - 1) + 3,
         NthIndex(returned.value, Fence, 2 * i) - 2)

LineCount(text) == Occurrences(text, "\n") + 1

\* The first n lines of a text, with their line breaks.
FirstLines(text, n) ==
  IF LineCount(text) <= n THEN text ELSE SubSeq(text, 1, NthIndex(text, "\n", n) - 1)

\* The marker of a truncated file of n lines.
Marker(n) ==
  IF FirstVersion THEN <<"\n... [TRUNCATED - ", ToString(n), " total lines]">>
  ELSE <<"\n... [TRUNCATED: showing 50 of ", ToString(n), " lines]">>

MarkerTokens ==
  {"\n... [TRUNCATED - ", " total lines]", "\n... [TRUNCATED: showing 50 of ", " lines]"}

\* C12: for a context file marked truncated whose text has N lines the
\* payload holds exactly the first 50 lines of the file, followed by a marker
\* that states N as the total; for a file not marked truncated it holds the
\* full text and no marker.
C12_FirstFiftyLinesAndMarker ==
  WasApplied =>
    /\ ~returned.threw
    /\ \A i \in DOMAIN applied.embeddedFiles :
         LET file == applied.embeddedFiles[i] IN
         IF file.truncated
         THEN FileBody(i) = FirstLines(file.text, 50) \o <<"\n">> \o Marker(LineCount(file.text))
         ELSE /\ FileBody(i) = file.text
              /\ \A k \in DOMAIN FileBody(i) : FileBody(i)[k] \notin MarkerTokens

\* A truncated file of 75 lines: the payload ends its text at line 50 and
\* states 75.
C12_Witness ==
  /\ applied.fn = "assemblePayload"
  /\ Len(applied.embeddedFiles) = 2
  /\ applied.embeddedFiles[2].truncated
  /\ LineCount(applied.embeddedFiles[2].text) = 75
  /\ Occurrences(FileBody(2), "50") = 1
  /\ Occurrences(FileBody(2), "51") = 0
  /\ Occurrences(FileBody(2), "75") = 1

\* C13: every context file that a popup hands to assemblePayload has
\* truncated = true exactly when its text has more than 50 lines.
C13_TruncatedIffOverFiftyLines ==
  applied.fn \in {"handleOptimize", "optimizeBtn click"} =>
    \A i \in DOMAIN applied.embeddedFiles :
      applied.embeddedFiles[i].truncated <=> LineCount(applied.embeddedFiles[i].text) > 50

\* The literal text of the version applied.
Literal == IF FirstVersion THEN TemplateV1 ELSE Template

\* The first tokens of the sections, in the order of the claim.
SectionStarts ==
  <<Literal.PreambleHead, Literal.RawHeader, Literal.AlwaysHeader, Literal.SnippetsHeader,
    Literal.FilenamesHeader, Literal.FilesHeader>>

At(tok) == IndexOf(returned.value, tok)

\* The token that opens the part of a file, before its name.
FileOpener == IF FirstVersion THEN "\n=== FILE: " ELSE "\n=== "

\* C14: in every payload assemblePayload returns, the sections present
\* appear in the order preamble, raw input, always-include text, saved
\* snippets, detected filenames, embedded files, the files in the order
\* given; the preamble and the raw input section, which holds the raw text
\* verbatim, are always present.
C14_SectionsInFixedOrder ==
  WasApplied =>
    /\ ~returned.threw
    /\ \A i \in DOMAIN SectionStarts : Occurrences(returned.value, SectionStarts[i]) <= 1
    /\ \A i, j \in DOMAIN SectionStarts :
         i < j /\ At(SectionStarts[i]) # 0 /\ At(SectionStarts[j]) # 0
           => At(SectionStarts[i]) < At(SectionStarts[j])
    /\ At(Literal.PreambleHead) = 1
    /\ At(Literal.PreambleTail) \in 2..(At(Literal.RawHeader) - 1)
    /\ At(Literal.RawHeader) # 0
    /\ SubSeq(returned.value, At(Literal.RawHeader) + 1,
              At(Literal.RawHeader) + Len(applied.rawPrompt)) = applied.rawPrompt
    /\ Occurrences(returned.value, FileOpener) = Len(applied.embeddedFiles)
    /\ \A i \in DOMAIN applied.embeddedFiles :
         /\ NthIndex(returned.value, FileOpener, i) > At(Literal.FilesHeader)
         /\ At(Literal.FilesHeader) # 0
         /\ returned.value[NthIndex(returned.value, FileOpener, i) + 1] =
              applied.embeddedFiles[i].name

\* A payload of all six sections, with two files.
C14_Witness ==
  /\ applied.fn = "assemblePayload"
  /\ \A i \in DOMAIN SectionStarts : At(SectionStarts[i]) # 0
  /\ Len(applied.embeddedFiles) = 2
  /\ applied.embeddedFiles[1] # applied.embeddedFiles[2]

Flags == {"noReadme", "fullCode", "preferVanilla", "shortSummary"}

\* The directive sentences of a flag in the version applied.
Directives(flag) ==
  IF FirstVersion
  THEN CASE flag = "noReadme" -> {TemplateV1.NoReadmeRule}
         [] flag = "fullCode" -> {TemplateV1.FullCodeRule}
         [] flag = "preferVanilla" -> {TemplateV1.PreferVanillaRule}
         [] flag = "shortSummary" -> {TemplateV1.ShortSummaryRule}
  ELSE CASE flag = "noReadme" -> {Template.NoReadmeRule}
         [] flag = "fullCode" -> {Template.FullCodeRule, Template.FullCodeRule2}
         [] flag = "preferVanilla" -> {Template.PreferVanillaRule, Template.PreferVanillaRule2}
         [] flag = "shortSummary" -> {Template.ShortSummaryRule, Template.ShortSummaryRule2}

\* The rules of the preamble: what stands between its head and its tail.
Rules ==
  SubSeq(returned.value, At(Literal.PreambleHead) + 1, At(Literal.PreambleTail) - 1)

\* C15: for each of the flags noReadme, fullCode, preferVanilla and
\* shortSummary the payload holds the directive sentences of the flag if and
\* only if the flag is true, and a false flag adds nothing to the payload:
\* whatever the flags, the rules hold the same line breaks, and beside them
\* the directives of the true flags only.
C15_DirectivesIffFlag ==
  WasApplied =>
    /\ ~returned.threw
    /\ \A flag \in Flags : \A sentence \in Directives(flag) :
         /\ Occurrences(returned.value, sentence) = IF applied.prefs[flag] THEN 1 ELSE 0
         /\ Occurrences(Rules, sentence) = Occurrences(returned.value, sentence)
    /\ \A k \in DOMAIN Rules :
         Rules[k] = "\n" \/ \E flag \in Flags : Rules[k] \in Directives(flag)
    /\ Occurrences(Rules, "\n") = Cardinality(UNION {Directives(flag) : flag \in Flags})

\* fullCode and noReadme alone, no context: the payload holds their
\* directives and the raw text.
C15_Witness ==
  /\ applied.fn = "assemblePayload"
  /\ applied.rawPrompt = <<"fix my code">>
  /\ applied.prefs.fullCode /\ applied.prefs.noReadme
  /\ ~applied.prefs.preferVanilla /\ ~applied.prefs.shortSummary
  /\ applied.scrapedFilenames = <<>> /\ applied.embeddedFiles = <<>>
  /\ Rules = <<Template.NoReadmeRule, "\n", Template.FullCodeRule, "\n",
               Template.FullCodeRule2, "\n", "\n", "\n", "\n", "\n">>
  /\ At("fix my code") = At(Template.RawHeader) + 1

Blank(text) == \A k \in DOMAIN text : text[k] \in Whitespace

NonBlank(text) == ~Blank(text)

\* C16: each optional section of the payload is present exactly when its
\* input is non-blank: the always-include section iff alwaysIncludeText is
\* non-blank, then holding it verbatim, and the snippets section iff at least
\* one saved snippet is non-blank, then holding exactly the non-blank
\* snippets in their original order.
C16_OptionalSectionsIffNonBlank ==
  WasApplied =>
    LET always == applied.prefs.alwaysIncludeText
        snippets == SelectSeq(applied.prefs.savedSnippets, NonBlank)
    IN
    /\ ~returned.threw
    /\ At(Literal.AlwaysHeader) # 0 <=> NonBlank(always)
    /\ At(Literal.AlwaysHeader) # 0 =>
         SubSeq(returned.value, At(Literal.AlwaysHeader) + 1,
                At(Literal.AlwaysHeader) + Len(always)) = always
    /\ At(Literal.SnippetsHeader) # 0 <=> snippets # <<>>
    /\ After(returned.value, Literal.SnippetsHeader, {"\n"}) =
         Join(snippets, <<Literal.SnippetSeparator>>)

\* C17: assemblePayload never fails: for every raw text, every preference
\* set (also with an empty list of snippets or blank snippets), every
\* filename list and every list of context files (also empty lists and files
\* with no extension) it returns a payload string and raises no error.
C17_NeverFails ==
  WasApplied =>
    /\ ~returned.threw
    /\ DOMAIN returned.value = 1..Len(returned.value)
    /\ Len(returned.value) > 0

\* Two files with no extension: the payload opens their code blocks with the
\* generic tag.
C17_Witness ==
  /\ applied.fn = "assemblePayload"
  /\ Len(applied.embeddedFiles) = 2
  /\ \A i \in DOMAIN applied.embeddedFiles : applied.embeddedFiles[i].ext = Undefined
  /\ ~returned.threw
  /\ \A i \in DOMAIN applied.embeddedFiles :
       returned.value[NthIndex(returned.value, Fence, 2 * i - 1) + 1] = "text"

-----------------------------------------------------------------------------
(* Properties of the requests sent                                         *)

\* The requests sent and not yet forgotten.
AllRequests ==
  Range(requests) \cup Range(v1Requests) \cup UNION {Range(calls[c].fetches) : c \in CallIds}

\* The sampling parameters of a request, where its provider reads them.
Sampling(request) ==
  CASE request.to = "gemini" ->
         IF "generationConfig" \in DOMAIN request.body
         THEN request.body.generationConfig ELSE << >>
    [] request.to = "openai" -> request.body
    [] request.to = "ollama" ->
         IF "options" \in DOMAIN request.body THEN request.body.options ELSE << >>

\* The names of the output-length cap of the three providers.
CapNames == {"maxOutputTokens", "max_tokens", "num_predict"}

SafetyCategories ==
  {"HARM_CATEGORY_HARASSMENT", "HARM_CATEGORY_HATE_SPEECH",
   "HARM_CATEGORY_SEXUALLY_EXPLICIT", "HARM_CATEGORY_DANGEROUS_CONTENT"}

\* C18: every request a provider client sends has temperature 0.4 and an
\* output-length cap, and every request sent to gemini sets all four
\* content-safety categories to BLOCK_NONE.
C18_RequestShape ==
  \A request \in AllRequests :
    /\ "temperature" \in DOMAIN Sampling(request)
    /\ Sampling(request).temperature = "0.4"
    /\ \E cap \in CapNames : cap \in DOMAIN Sampling(request) /\ Sampling(request)[cap] > 0
    /\ request.to = "gemini" =>
         /\ "safetySettings" \in DOMAIN request.body
         /\ \A category \in SafetyCategories :
              \E i \in DOMAIN request.body.safetySettings :
                request.body.safetySettings[i] =
                  [category |-> category, threshold |-> "BLOCK_NONE"]

-----------------------------------------------------------------------------
(* Properties of testProvider                                              *)

\* The prompt a request carries in its body.
PromptOf(request) ==
  CASE request.to = "gemini" -> request.body.contents[1].parts[1].text
    [] request.to = "openai" -> request.body.messages[1].content
    [] request.to = "ollama" -> request.body.prompt

Testing == applied.fn = "testProvider"

\* The canary has been sent to the provider under test, and nothing else.
CanarySent ==
  /\ Len(requests) = 1
  /\ requests[1].to = applied.provider
  /\ PromptOf(requests[1]) = testPrompt

\* The credential the client of the provider under test requires is missing.
KeyMissing ==
  \/ applied.provider = "gemini" /\ Falsy(applied.config.apiKey)
  \/ applied.provider = "openai" /\ Falsy(applied.config.openaiKey)

\* The steps of testProvider leave the stored preferences, credentials and
\* history as they are.
TestWritesNothing ==
  (applied' # applied \/ returned' # returned)
    => UNCHANGED <<storage, storedPreferences, promptHistory>>

\* C19 as stated: for every provider and config testProvider sends the
\* canary to that provider, and returns success exactly when that request
\* succeeded.
C19_AlwaysSendsCanary ==
  (Testing /\ applied.returned) =>
    /\ CanarySent
    /\ returned.value.success <=> (net.type = "response" /\ result.ok)

\* C19, amended: testProvider never throws and writes no storage; when the
\* credential its provider requires is missing it sends nothing and returns
\* {success: false} with the client's message; otherwise it sends the canary
\* to that provider, once, and returns {success: true} if and only if the
\* call of the client resolved, and {success: false, error} with the message
\* of the client's error if not.
C19_CanaryUnlessKeyMissing ==
  /\ [](Testing =>
         /\ ~returned.threw
         /\ IF KeyMissing THEN requests = <<>> /\ applied.returned ELSE CanarySent
         /\ applied.returned =>
              /\ returned.value.success <=> (~KeyMissing /\ net.type = "response" /\ result.ok)
              /\ returned.value.success => DOMAIN returned.value = {"success"}
              /\ ~returned.value.success =>
                   /\ DOMAIN returned.value = {"success", "error"}
                   /\ returned.value.error = result.message
                   /\ returned.value.error # <<>>
              /\ (KeyMissing /\ applied.provider = "gemini") =>
                   returned.value.error = <<"Gemini API key is required">>
              /\ (KeyMissing /\ applied.provider = "openai") =>
                   returned.value.error = <<"OpenAI API key is required">>)
  /\ [][TestWritesNothing]_vars

\* The Gemini test with no key: nothing sent, {success: false} returned,
\* with other preferences in storage than at the start.
C19_Witness ==
  /\ Testing /\ applied.returned
  /\ applied.provider = "gemini" /\ applied.config.apiKey = ""
  /\ requests = <<>>
  /\ returned.value = [success |-> FALSE, error |-> <<"Gemini API key is required">>]
  /\ storage # EmptyStorage

-----------------------------------------------------------------------------
(* Properties of estimateTokens                                            *)

\* The positions where a word of the text begins.
WordStarts(text) ==
  {i \in DOMAIN text :
     text[i] \notin WhitespaceChars /\ (i = 1 \/ text[i - 1] \in WhitespaceChars)}

\* The length of the word that begins at position i.
WordLength(text, i) ==
  CHOOSE n \in 1..Len(text) :
    /\ i + n - 1 <= Len(text)
    /\ \A k \in i..(i + n - 1) : text[k] \notin WhitespaceChars
    /\ i + n > Len(text) \/ text[i + n] \in WhitespaceChars

\* ceil(n / d)
Ceil(n, d) == CHOOSE k \in 0..n : d * k >= n /\ d * (k - 1) < n

Units(length) ==
  IF length <= 4 THEN 1
  ELSE IF length <= 8 THEN 2
  ELSE IF length <= 12 THEN 3
  ELSE Ceil(length, 4)

RECURSIVE SumUnits(_, _)
SumUnits(text, starts) ==
  IF starts = {} THEN 0
  ELSE LET i == CHOOSE j \in starts : TRUE IN
       Units(WordLength(text, i)) + SumUnits(text, starts \ {i})

\* max(1, U + ceil(P/2) + N) of a text.
Estimate(text) ==
  LET U == SumUnits(text, WordStarts(text))
      P == Cardinality({i \in DOMAIN text : text[i] \in SpecialChars})
      N == Cardinality({i \in DOMAIN text : text[i] = "\n"})
      sum == U + Ceil(P, 2) + N
  IN  IF sum > 1 THEN sum ELSE 1

\* C20: estimateTokens(text) is 0 if and only if text is empty or absent;
\* for every other text it is max(1, U + ceil(P/2) + N), U the units of the
\* words (1 up to 4 characters, 2 up to 8, 3 up to 12, ceil(length/4)
\* beyond), P the count of punctuation characters, N that of newlines.
C20_EstimateFormula ==
  applied.fn = "estimateTokens" =>
    /\ ~returned.threw
    /\ returned.value = 0 <=> (applied.text = Undefined \/ applied.text = <<>>)
    /\ (applied.text # Undefined /\ applied.text # <<>>) =>
         returned.value = Estimate(applied.text)

\* A word of 13 letters, a space and three dots: 4 + 1 units, 2 for the dots.
C20_Witness ==
  /\ applied.fn = "estimateTokens"
  /\ applied.text = Expand(<<[ch |-> "a", n |-> 13], [ch |-> " ", n |-> 1],
                             [ch |-> ".", n |-> 3]>>)
  /\ returned.value = 7

-----------------------------------------------------------------------------
(* Properties of calculateSavings                                          *)

Saving == applied.fn = "calculateSavings"

\* C21: for all non-negative token counts before and after,
\* calculateSavings(before, after) returns saved = before - after,
\* percentage = saved / before * 100 rounded to the nearest integer when
\* before > 0 and 0 when before = 0, and isReduction = (saved > 0), so that
\* isReduction is true exactly when after < before.
C21_SavedPercentageReduction ==
  Saving =>
    LET before == applied.original
        after == applied.optimized
        savings == returned.value
        \* twice the distance of the percentage from saved / before * 100,
        \* in units of 1 / before
        off == 2 * (100 * savings.saved - savings.percentage * before)
    IN
    /\ ~returned.threw
    /\ savings.saved = before - after
    /\ before > 0 => off <= before /\ -off <= before
    /\ before = 0 => savings.percentage = 0
    /\ savings.isReduction <=> savings.saved > 0
    /\ savings.isReduction <=> after < before

\* calculateSavings(100, 60) = {saved: 40, percentage: 40, isReduction: true}
C21_Witness ==
  /\ Saving /\ applied.original = 100 /\ applied.optimized = 60
  /\ returned.value = [saved |-> 40, percentage |-> 40, isReduction |-> TRUE]

-----------------------------------------------------------------------------
(* Properties of the diff functions                                        *)

\* The set of lowercase words of a text.
WordSet(text) == LowerSet(tokenize(text))

\* C22: for every pair of texts A and B, the added count of createDiff(A, B)
\* equals the removed count of createDiff(B, A).
C22_AddedEqualsRemovedOfSwapped ==
  applied.fn = "createDiff" =>
    returned.value.stats.added
      = createDiff(applied.optimized, applied.original).stats.removed

\* createDiff has compared "a A" with "Aa": two words removed, one added.
C22_Witness ==
  /\ applied.fn = "createDiff"
  /\ applied.original = <<"a", " ", "A">>
  /\ applied.optimized = <<"A", "a">>
  /\ returned.value.stats.added = 1
  /\ returned.value.stats.removed = 2

\* C23: calculateSimilarity(a, b) is within 0..100; it is 100 when both word
\* sets are empty, 0 when exactly one is empty, and otherwise an integer
\* nearest to 100 times the size of the intersection of the lowercase word
\* sets over the size of their union; calculateSimilarity(b, a) gives the
\* same number, and calculateSimilarity(text, text) is 100 for a non-empty
\* text.
C23_JaccardPercentage ==
  applied.fn = "calculateSimilarity" =>
    LET A == WordSet(applied.original)
        B == WordSet(applied.optimized)
        both == Cardinality(A \cap B)
        union == Cardinality(A \cup B)
        similarity == returned.value
        off == 2 * (100 * both - similarity * union)
    IN  /\ similarity \in 0..100
        /\ A = {} /\ B = {} => similarity = 100
        /\ (A = {}) # (B = {}) => similarity = 0
        /\ A # {} /\ B # {} => off <= union /\ -off <= union
        /\ similarity \in calculateSimilarity(applied.optimized, applied.original)
        /\ applied.original = applied.optimized /\ applied.original # <<>>
             => similarity = 100

\* calculateSimilarity has compared "a b" with "A": one word of two shared.
C23_Witness ==
  /\ applied.fn = "calculateSimilarity"
  /\ applied.original = <<"a", " ", "b">>
  /\ applied.optimized = <<"A">>
  /\ returned.value = 50

\* The entries of a unified diff: of each div its opening and its content.
RECURSIVE Entries(_)
Entries(html) ==
  IF html = <<>> THEN <<>>
  ELSE LET close == CHOOSE k \in DOMAIN html :
                      html[k] = "</div>" /\ \A j \in 1..(k - 1) : html[j] # "</div>"
       IN  <<[open |-> html[1], html |-> SubSeq(html, 2, close - 1)]>>
             \o Entries(SubSeq(html, close + 1, Len(html)))

\* The entries of one kind the unified diff just returned.
EntriesOfKind(open) == SelectSeq(Entries(returned.value), LAMBDA entry : entry.open = open)

UnchangedEntries == EntriesOfKind("<div class=\"diff-line diff-unchanged\">")
RemovedEntries == EntriesOfKind("<div class=\"diff-line diff-removed\">- ")
AddedEntries == EntriesOfKind("<div class=\"diff-line diff-added\">+ ")

\* An entry of the list shows this line.
Shows(entries, line) ==
  \E k \in DOMAIN entries :
    entries[k].html = IF line = <<>> THEN <<"&nbsp;">> ELSE escapeHtml(line)

\* C24: in createUnifiedDiff(a, b) the unchanged entries are those of the
\* indices i with a[i] = b[i]; a removed entry shows a line a[i] that differs
\* from b[i] and occurs nowhere in b, an added entry a line b[i] that differs
\* from a[i] and occurs nowhere in a; no entry stands for a line that its
\* text does not have.
C24_EntriesPerIndex ==
  applied.fn = "createUnifiedDiff" =>
    LET a == Split(applied.original)
        b == Split(applied.optimized)
        same == {i \in DOMAIN a \cap DOMAIN b : a[i] = b[i]}
    IN  /\ Len(UnchangedEntries) = Cardinality(same)
        /\ \A i \in same : Shows(UnchangedEntries, a[i])
        /\ \A k \in DOMAIN RemovedEntries :
             \E i \in DOMAIN a \ same :
               /\ RemovedEntries[k].html = escapeHtml(a[i])
               /\ \A j \in DOMAIN b : b[j] # a[i]
        /\ \A k \in DOMAIN AddedEntries :
             \E i \in DOMAIN b \ same :
               /\ AddedEntries[k].html = escapeHtml(b[i])
               /\ \A j \in DOMAIN a : a[j] # b[i]

\* C25: in createUnifiedDiff(a, b) a line of both texts that stands at the
\* same index in both has an unchanged entry, and a line of both texts that
\* stands at no common index has both a removed and an added entry.
C25_MovedLineAddedAndRemoved ==
  applied.fn = "createUnifiedDiff" =>
    LET a == Split(applied.original)
        b == Split(applied.optimized)
    IN  \A i \in DOMAIN a, j \in DOMAIN b :
          a[i] = b[j] /\ a[i] # <<>> =>
            IF \E k \in DOMAIN a \cap DOMAIN b : a[k] = a[i] /\ b[k] = a[i]
              THEN Shows(UnchangedEntries, a[i])
              ELSE Shows(RemovedEntries, a[i]) /\ Shows(AddedEntries, a[i])

-----------------------------------------------------------------------------
(* Properties of the message listener                                      *)

\* A response carries a prompt or an error, never both.
PromptOrError(response) ==
  IF response.ok THEN response.error = <<>> ELSE response.prompt = <<>>

\* C26: for every OPTIMIZE message the worker receives, sendResponse is
\* called exactly once, with {ok: true, prompt} or {ok: false, error} and
\* never both: it is never called twice, what it is called with carries a
\* prompt or an error, and once a message is being handled the call follows.
C26_RespondsExactlyOnce ==
  /\ [](sendResponseCalls <= 1)
  /\ [](sendResponseCalls = 1 => PromptOrError(bgResponse))
  /\ (bgPc # "idle") ~> (sendResponseCalls = 1)

\* The same with the read of the preferences having succeeded.
C26_RespondsOnceUnlessReadFails ==
  /\ [](sendResponseCalls <= 1)
  /\ [](sendResponseCalls = 1 => PromptOrError(bgResponse))
  /\ (bgPc \notin {"idle", "awaitPreferences"}) ~> (sendResponseCalls = 1)

-----------------------------------------------------------------------------
(* Properties of the history                                               *)

\* No history call is in progress.
HistoryQuiet == \A p \in HistoryPages : historyCalls[p].pc = "idle"

\* C27: after any sequence of saveToHistory, deleteHistoryItem and
\* clearHistory calls made one after another from an empty history, the
\* stored history holds at most 50 entries, those of later calls before those
\* of earlier ones (the n-th call saves the prompt <<n>>), and the entry of
\* the most recent saveToHistory that resolved is at index 0 until it is
\* deleted or the history is cleared.
C27_CappedNewestFirstLatestOnTop ==
  /\ Len(promptHistory) <= MAX_HISTORY_ITEMS
  /\ \A i, j \in DOMAIN promptHistory :
       i < j => promptHistory[i].original[1] > promptHistory[j].original[1]
  /\ latest # NoEntry => promptHistory # <<>> /\ promptHistory[1] = latest

\* The 51st entry has been saved: it is on top of 50 entries and the first
\* one is gone.
C27_Witness ==
  /\ HistoryQuiet
  /\ Len(promptHistory) = MAX_HISTORY_ITEMS
  /\ promptHistory[1].original = <<MAX_HISTORY_ITEMS + 1>>
  /\ promptHistory[MAX_HISTORY_ITEMS].original = <<2>>
  /\ latest = promptHistory[1]

\* C28: when history updates of the popup and the side panel overlap, no
\* update is lost: once they have completed the stored history holds every
\* entry that was saved and none that was deleted, and no two entries share
\* an id.
C28_NoUpdateLost ==
  HistoryQuiet =>
    /\ \A entry \in keptEntries : \E i \in DOMAIN promptHistory : promptHistory[i] = entry
    /\ \A i \in DOMAIN promptHistory : promptHistory[i] \in keptEntries
    /\ \A i, j \in DOMAIN promptHistory : i # j => promptHistory[i].id # promptHistory[j].id

-----------------------------------------------------------------------------
(* Properties of auto-optimize                                             *)

\* A timer of the side panel has just called handleOptimize.
AutoTriggeredInSidePanel == sidePanel'.autoTriggered > sidePanel.autoTriggered

\* C29: auto-optimize is debounced, in the side panel as in the popup: at
\* most one timer is pending at any time, a timer calls handleOptimize only
\* when 1500 ms have passed without input, and it calls it only while the
\* auto-optimize box is checked.
C29_Debounced ==
  /\ [](Cardinality(sidePanel.timers) <= 1)
  /\ [][AutoTriggeredInSidePanel =>
          sidePanel.autoOptimize /\ sidePanel.sinceInput >= Debounce]_vars

\* The side panel has at most one timer pending at any time.
C29_OneTimerPending == Cardinality(sidePanel.timers) <= 1

\* In the popup the timer calls handleOptimize only while the box is checked.
C29_PopupTimerOnlyWhileChecked ==
  [][autoOptimizeTimeout /\ ~autoOptimizeTimeout' /\ UNCHANGED autoOptimizeChecked
       => autoOptimizeChecked]_vars

-----------------------------------------------------------------------------
(* Properties of the loading state                                         *)

\* C30: the optimize button of the popup is disabled whenever at least one
\* handleOptimize call is in progress, and enabled once every call has
\* ended, however the calls ended.
C30_DisabledWhileInProgress ==
  /\ (\E c \in CallIds : Active(c)) => optimizeBtnDisabled
  /\ AllReturned => ~optimizeBtnDisabled

\* Once every call has ended the button is enabled.
C30_EnabledWhenAllEnded == AllReturned => ~optimizeBtnDisabled

=============================================================================
